---- MODULE Spec2Model ----
(***************************************************************************)
(* Model of obsidian-workspace-connect: the converters between Markdown    *)
(* and Google Workspace files (Sheets, Slides, Docs, Forms), the           *)
(* NoteAnalyzer heuristics, the commands of the plugin that import,        *)
(* export and sync linked files, and GoogleApiService.request.             *)
(*                                                                         *)
(* Text is a sequence of one-character strings, so that trim, split,       *)
(* startsWith and the regular expressions of the source are computed       *)
(* character by character, as the code computes them.                      *)
(***************************************************************************)
EXTENDS Integers, Sequences, FiniteSets, TLC

VARIABLES
    pc,             \* position inside the operation that is running
    content,        \* the Markdown text handed to an analyzer function
    lines,          \* const lines = content.split('\n')
    i,              \* loop index over lines
    data,           \* SheetsConverter.arrayToMarkdownTable: the 2-D grid
    markdownTable,  \* the Markdown table text
    tableArray,     \* SheetsConverter.markdownTableToArray: the grid read back
    extractedTables,\* SheetsConverter.extractTables: the grids read back
    presentation,   \* SlidesConverter.toMarkdown: the GooglePresentation
    markdown,       \* the Markdown text of the presentation
    slides,         \* SlidesConverter.parseMarkdownToSlides: the slides read back
    questions,      \* NoteAnalyzer.detectQuestions: the questions found so far
    origin,         \* history: the line and the pass that produced each question
    detected,       \* NoteAnalyzer.detectQuestions: the questions returned
    tables,         \* NoteAnalyzer.extractTables: the tables closed so far
    currentHeaders, \* the header cells of the table in progress
    currentRows,    \* the data rows of the table in progress
    startLine,      \* the index in lines of the header of the table in progress
    inTable,        \* whether a table is in progress
    rowLines,       \* history: the index in lines each row of currentRows came from
    tableRowLines,  \* history: rowLines of each table of tables
    fileName,       \* NoteAnalyzer.analyze: the name of the note's file
    noteTitle,      \* the title extractTitle resolved
    headings,       \* NoteAnalyzer.analyzeDocs: the headings of the note
    paragraphCount, \* the number of paragraphs of the note
    contentType,    \* the content type of the note as a document
    sections,       \* NoteAnalyzer.splitIntoSections: the sections pushed so far
    currentHeading, \* the heading of the section in progress
    currentContent, \* the lines of the section in progress
    sectionsOut,    \* the sections splitIntoSections returned
    requests,       \* DocsConverter.markdownToDocsRequests: the requests so far
    insertIndex,    \* the index in the document the next text goes to
    requestLine,    \* history: the index in lines each request was made for
    analysisTables, \* NoteAnalyzer.analyzeSheets: the tables of the note
    lists,          \* the lists of the note
    numericalData,  \* the labelled numbers of the note
    suggestedChartType, \* the chart type suggested for them
    slideProposals, \* NoteAnalyzer.analyzeSlides: the slides proposed
    theme,          \* the theme of the presentation
    estimatedDuration, \* the text of its estimated duration
    formQuestions,  \* NoteAnalyzer.analyzeForms: the questions of the form
    hasAnswerKey,   \* whether the note has an answer key
    isQuizLikely,   \* whether the note looks like a quiz
    isSurveyLikely, \* whether the note looks like a survey
    formType,       \* the type of the form
    description,    \* the description of the form
    cellData,       \* SheetsConverter.getCellValue: the CellData, if any
    cellValue,      \* the text getCellValue returned
    accessToken,    \* WorkspaceConnectPlugin: settings.accessToken
    refreshToken,   \* settings.refreshToken
    linkedFiles,    \* settings.linkedFiles; ref is the identity of the link object
    vault,          \* the notes of the vault: path -> text
    remoteFiles,    \* the files of the Google account: id -> type and revision
    remoteCalls,    \* the number of calls made to the Google services
    now,            \* the clock new Date() reads
    notice,         \* the text of the last Notice shown
    saves,          \* the saveSettings calls since the last sync run began
    syncIndex,      \* syncLinkedFiles: the next index of the array iterator
    syncLinked,     \* the link the loop body holds while it is suspended
    synced,         \* let synced
    errors,         \* let errors
    visited,        \* history: the refs of the links the loop took, in order
    overwritten,    \* history: the refs of the links whose note the run rewrote
    startLinks,     \* history: settings.linkedFiles when the run began
    unlinked,       \* history: the refs of the links removed since the run began
    retries,        \* GoogleApiService.request: let retries
    httpRequests,   \* the number of calls of requestUrl(requestOptions)
    tokenRefreshes, \* the number of calls of oauthManager.refreshAccessToken
    returned,       \* the value request returned, <<>> while it has not
    thrown,         \* the message of the error request threw, <<>> while it has not
    trail,          \* history: the answers of the network, in order
    form,           \* FormsConverter.toMarkdown: the GoogleForm
    formLines,      \* const lines
    questionNum,    \* let questionNum
    itemIndex,      \* the position of the loop in form.items
    formMarkdown    \* the text toMarkdown returned

sheetsVars == <<data, markdownTable, tableArray, extractedTables>>
slidesVars == <<presentation, markdown, slides>>
questionVars == <<questions, origin, detected>>
tableVars == <<tables, currentHeaders, currentRows, startLine, inTable, rowLines, tableRowLines>>
textVars == <<content, lines, i>>
analyzeVars == <<fileName, noteTitle, headings, paragraphCount, contentType>>
sectionVars == <<sections, currentHeading, currentContent, sectionsOut>>
requestVars == <<requests, insertIndex, requestLine>>
cellVars == <<cellData, cellValue>>
sheetsAnalysisVars == <<analysisTables, lists, numericalData, suggestedChartType>>
slidesAnalysisVars == <<slideProposals, theme, estimatedDuration>>
formsVars == <<formQuestions, hasAnswerKey, isQuizLikely, isSurveyLikely, formType,
               description>>
settingsVars == <<accessToken, refreshToken, linkedFiles, saves>>
worldVars == <<vault, remoteFiles, remoteCalls, now, notice>>
syncVars == <<syncIndex, syncLinked, synced, errors, visited, overwritten, startLinks,
              unlinked>>
pluginVars == <<settingsVars, worldVars, syncVars>>
apiVars == <<retries, httpRequests, tokenRefreshes, returned, thrown, trail>>
formVars == <<form, formLines, questionNum, itemIndex, formMarkdown>>
vars == <<pc, textVars, sheetsVars, slidesVars, questionVars, tableVars, analyzeVars,
          sectionVars, requestVars, cellVars, sheetsAnalysisVars, slidesAnalysisVars,
          formsVars, pluginVars, apiVars, formVars>>

IdleSheets ==
    /\ data = <<>> /\ markdownTable = <<>> /\ tableArray = <<>>
    /\ extractedTables = <<>>
IdleSlides == presentation = <<>> /\ markdown = <<>> /\ slides = <<>>
IdleQuestions == questions = <<>> /\ origin = <<>> /\ detected = <<>>
IdleTables ==
    /\ tables = <<>> /\ currentHeaders = <<>> /\ currentRows = <<>> /\ startLine = -1
    /\ inTable = FALSE /\ rowLines = <<>> /\ tableRowLines = <<>>
IdleAnalyze ==
    /\ fileName = <<>> /\ noteTitle = <<>> /\ headings = <<>> /\ paragraphCount = 0
    /\ contentType = "general"
IdleSections ==
    /\ sections = <<>> /\ currentHeading = <<>> /\ currentContent = <<>>
    /\ sectionsOut = <<>>
IdleRequests == requests = <<>> /\ insertIndex = 0 /\ requestLine = <<>>
IdleCell == cellData = <<>> /\ cellValue = <<>>
IdleSheetsAnalysis ==
    /\ analysisTables = <<>> /\ lists = <<>> /\ numericalData = <<>>
    /\ suggestedChartType = "none"
IdleSlidesAnalysis ==
    slideProposals = <<>> /\ theme = "professional" /\ estimatedDuration = <<>>
IdleForms ==
    /\ formQuestions = <<>> /\ hasAnswerKey = FALSE /\ isQuizLikely = FALSE
    /\ isSurveyLikely = FALSE /\ formType = "general" /\ description = <<>>
IdleText == content = <<>> /\ lines = <<>> /\ i = 0
IdleSync ==
    /\ syncIndex = 0 /\ syncLinked = <<>> /\ synced = 0 /\ errors = 0
    /\ visited = <<>> /\ overwritten = {} /\ startLinks = <<>> /\ unlinked = {}
IdleApi ==
    /\ retries = 0 /\ httpRequests = 0 /\ tokenRefreshes = 0 /\ returned = <<>>
    /\ thrown = <<>> /\ trail = <<>>
IdleForm ==
    /\ form = <<>> /\ formLines = <<>> /\ questionNum = 0 /\ itemIndex = 0
    /\ formMarkdown = <<>>
IdlePlugin ==
    /\ accessToken = "" /\ refreshToken = "" /\ linkedFiles = <<>> /\ saves = 0
    /\ vault = <<>> /\ remoteFiles = <<>> /\ remoteCalls = 0 /\ now = 0
    /\ notice = "" /\ IdleSync

\* the operations that work on the text of a note
TextGroups == {"questions", "tables", "analyze", "sections", "requests", "sheetsAnalysis",
               "slidesAnalysis", "forms"}

\* the state of every component but g is the idle one
IdleExcept(g) ==
    /\ IF g = "sheets" THEN TRUE ELSE IdleSheets
    /\ IF g = "slides" THEN TRUE ELSE IdleSlides
    /\ IF g = "questions" THEN TRUE ELSE IdleQuestions
    /\ IF g = "tables" THEN TRUE ELSE IdleTables
    /\ IF g = "analyze" THEN TRUE ELSE IdleAnalyze
    /\ IF g = "sections" THEN TRUE ELSE IdleSections
    /\ IF g = "requests" THEN TRUE ELSE IdleRequests
    /\ IF g = "cell" THEN TRUE ELSE IdleCell
    /\ IF g = "sheetsAnalysis" THEN TRUE ELSE IdleSheetsAnalysis
    /\ IF g = "slidesAnalysis" THEN TRUE ELSE IdleSlidesAnalysis
    /\ IF g = "forms" THEN TRUE ELSE IdleForms
    /\ IF g = "plugin" THEN TRUE ELSE IdlePlugin
    /\ IF g = "api" THEN TRUE ELSE IdleApi
    /\ IF g = "form" THEN TRUE ELSE IdleForm
    /\ IF g \in TextGroups THEN TRUE ELSE IdleText

\* a step of component g leaves the state of the other components alone
Frame(g) ==
    /\ IF g = "sheets" THEN TRUE ELSE UNCHANGED sheetsVars
    /\ IF g = "slides" THEN TRUE ELSE UNCHANGED slidesVars
    /\ IF g = "questions" THEN TRUE ELSE UNCHANGED questionVars
    /\ IF g = "tables" THEN TRUE ELSE UNCHANGED tableVars
    /\ IF g = "analyze" THEN TRUE ELSE UNCHANGED analyzeVars
    /\ IF g = "sections" THEN TRUE ELSE UNCHANGED sectionVars
    /\ IF g = "requests" THEN TRUE ELSE UNCHANGED requestVars
    /\ IF g = "cell" THEN TRUE ELSE UNCHANGED cellVars
    /\ IF g = "sheetsAnalysis" THEN TRUE ELSE UNCHANGED sheetsAnalysisVars
    /\ IF g = "slidesAnalysis" THEN TRUE ELSE UNCHANGED slidesAnalysisVars
    /\ IF g = "forms" THEN TRUE ELSE UNCHANGED formsVars
    /\ IF g = "plugin" THEN TRUE ELSE UNCHANGED pluginVars
    /\ IF g = "api" THEN TRUE ELSE UNCHANGED apiVars
    /\ IF g = "form" THEN TRUE ELSE UNCHANGED formVars
    /\ IF g \in TextGroups THEN TRUE ELSE UNCHANGED textVars

(***************************************************************************)
(* Strings                                                                 *)
(***************************************************************************)
NL == "\n"

\* \s of a JavaScript regular expression, and the characters trim() removes
WsChars == {" ", "\t", "\n", "\r"}
IsWs(c) == c \in WsChars

RECURSIVE TrimStart(_)
TrimStart(s) ==
    IF s = <<>> THEN s
    ELSE IF IsWs(Head(s)) THEN TrimStart(Tail(s)) ELSE s

RECURSIVE TrimEnd(_)
TrimEnd(s) ==
    IF s = <<>> THEN s
    ELSE IF IsWs(s[Len(s)]) THEN TrimEnd(SubSeq(s, 1, Len(s) - 1)) ELSE s

Trim(s) == TrimEnd(TrimStart(s))

StartsWith(s, p) == Len(s) >= Len(p) /\ SubSeq(s, 1, Len(p)) = p

EndsWith(s, p) == Len(s) >= Len(p) /\ SubSeq(s, Len(s) - Len(p) + 1, Len(s)) = p

\* s.slice(1, -1)
SliceInner(s) == SubSeq(s, 2, Len(s) - 1)

\* s.split(c) for a one-character separator: "".split(c) is [""]
RECURSIVE Split(_, _)
Split(s, c) ==
    IF \A k \in 1..Len(s) : s[k] # c THEN <<s>>
    ELSE LET k == CHOOSE k \in 1..Len(s) :
                      s[k] = c /\ \A j \in 1..(k - 1) : s[j] # c
         IN  <<SubSeq(s, 1, k - 1)>> \o Split(SubSeq(s, k + 1, Len(s)), c)

\* parts.join(sep)
RECURSIVE Join(_, _)
Join(parts, sep) ==
    IF parts = <<>> THEN <<>>
    ELSE IF Len(parts) = 1 THEN parts[1]
    ELSE parts[1] \o sep \o Join(Tail(parts), sep)

\* Array(n).fill(x)
Fill(n, x) == [k \in 1..n |-> x]

Digits == {"0", "1", "2", "3", "4", "5", "6", "7", "8", "9"}
IsDigit(c) == c \in Digits

UpperCase == <<"A", "B", "C", "D", "E", "F", "G", "H", "I", "J", "K", "L", "M",
               "N", "O", "P", "Q", "R", "S", "T", "U", "V", "W", "X", "Y", "Z">>
LowerCase == <<"a", "b", "c", "d", "e", "f", "g", "h", "i", "j", "k", "l", "m",
               "n", "o", "p", "q", "r", "s", "t", "u", "v", "w", "x", "y", "z">>

LowerChar(c) ==
    IF \E k \in 1..26 : UpperCase[k] = c
    THEN LowerCase[CHOOSE k \in 1..26 : UpperCase[k] = c]
    ELSE c

\* s.toLowerCase()
ToLowerCase(s) == [k \in 1..Len(s) |-> LowerChar(s[k])]

\* s.includes(p)
Includes(s, p) ==
    \E k \in 1..(Len(s) - Len(p) + 1) : SubSeq(s, k, k + Len(p) - 1) = p

\* the number of leading characters of s that satisfy the test
\* the number of leading characters of s that are in the set chars
RunLen(s, chars) ==
    CHOOSE n \in 0..Len(s) :
        /\ \A k \in 1..n : s[k] \in chars
        /\ n = Len(s) \/ s[n + 1] \notin chars

\* s.slice(n)
Drop(s, n) == SubSeq(s, n + 1, Len(s))

\* n.toString() of a natural number
RECURSIVE NumStr(_)
NumStr(n) ==
    LET digit == <<"0", "1", "2", "3", "4", "5", "6", "7", "8", "9">>[(n % 10) + 1]
    IN  IF n < 10 THEN <<digit>> ELSE NumStr(n \div 10) \o <<digit>>

MaxOf(S) == IF S = {} THEN 0 ELSE CHOOSE m \in S : \A n \in S : n <= m

\* all sequences over S of length 0..n
SeqsUpTo(S, n) == UNION {[1..k -> S] : k \in 0..n}

(***************************************************************************)
(* SheetsConverter                                                         *)
(***************************************************************************)

\* cell.replace(/\|/g, '\\|')
RECURSIVE EscapePipes(_)
EscapePipes(cell) ==
    IF cell = <<>> THEN <<>>
    ELSE (IF Head(cell) = "|" THEN <<"\\", "|">> ELSE <<Head(cell)>>)
         \o EscapePipes(Tail(cell))

\* cell.replace(/\\\|/g, '|')
RECURSIVE UnescapePipes(_)
UnescapePipes(cell) ==
    IF Len(cell) < 2 THEN cell
    ELSE IF cell[1] = "\\" /\ cell[2] = "|"
         THEN <<"|">> \o UnescapePipes(SubSeq(cell, 3, Len(cell)))
         ELSE <<Head(cell)>> \o UnescapePipes(Tail(cell))

\* `| ${cells.join(' | ')} |`
RowLine(cells) == <<"|", " ">> \o Join(cells, <<" ", "|", " ">>) \o <<" ", "|">>

\* /^\|[\s\-:|]+\|$/ on a trimmed line
IsSeparatorLine(trimmedLine) ==
    /\ Len(trimmedLine) >= 3
    /\ trimmedLine[1] = "|"
    /\ trimmedLine[Len(trimmedLine)] = "|"
    /\ \A k \in 2..(Len(trimmedLine) - 1) :
           IsWs(trimmedLine[k]) \/ trimmedLine[k] \in {"-", ":", "|"}

\* trimmedLine.startsWith('|') && trimmedLine.endsWith('|')
IsTableRow(trimmedLine) ==
    StartsWith(trimmedLine, <<"|">>) /\ EndsWith(trimmedLine, <<"|">>)

ArrayToMarkdownTable(grid) ==
    IF Len(grid) = 0 THEN <<>>
    ELSE
        LET maxCols == MaxOf({Len(grid[r]) : r \in 1..Len(grid)})
            \* row[j] || ''
            CellAt(row, j) == IF j <= Len(row) THEN row[j] ELSE <<>>
            Cells(row) == [j \in 1..maxCols |-> EscapePipes(CellAt(row, j))]
            SepLine == RowLine(Fill(maxCols, <<"-", "-", "-">>))
            RowLines(r) ==
                IF r = 1 THEN <<RowLine(Cells(grid[r])), SepLine>>
                ELSE <<RowLine(Cells(grid[r]))>>
            RECURSIVE From(_)
            From(r) == IF r > Len(grid) THEN <<>> ELSE RowLines(r) \o From(r + 1)
        IN  Join(From(1), <<NL>>)

\* ParseRow with the cell.trim() forgotten
ParseRowNoTrim(trimmedLine) ==
    LET parts == Split(SliceInner(trimmedLine), "|")
    IN  [k \in 1..Len(parts) |-> UnescapePipes(parts[k])]

\* trimmedLine.slice(1, -1).split('|').map(cell => cell.trim().replace(/\\\|/g, '|'))
ParseRow(trimmedLine) ==
    LET parts == Split(SliceInner(trimmedLine), "|")
    IN  [k \in 1..Len(parts) |-> UnescapePipes(Trim(parts[k]))]

MarkdownTableToArray(md) ==
    LET NonBlank(line) == Trim(line) # <<>>
        ls == SelectSeq(Split(md, NL), NonBlank)
        RECURSIVE From(_)
        From(k) ==
            IF k > Len(ls) THEN <<>>
            ELSE LET trimmedLine == Trim(ls[k])
                 IN  IF ~IsTableRow(trimmedLine) THEN From(k + 1)
                     ELSE IF IsSeparatorLine(trimmedLine) THEN From(k + 1)
                     ELSE <<ParseRow(trimmedLine)>> \o From(k + 1)
    IN  From(1)

\* SheetsConverter.extractTables: the rows of consecutive table lines, a
\* line that is not a table row closing the table in progress
SheetsExtractTables(md) ==
    LET ls == Split(md, NL)
        RECURSIVE Walk(_, _, _, _)
        Walk(k, tbls, currentTable, inTbl) ==
            IF k > Len(ls)
            THEN IF Len(currentTable) > 0 THEN Append(tbls, currentTable) ELSE tbls
            ELSE LET trimmedLine == Trim(ls[k])
                 IN  IF IsTableRow(trimmedLine)
                     THEN IF IsSeparatorLine(trimmedLine)
                          THEN Walk(k + 1, tbls, currentTable, inTbl)
                          ELSE Walk(k + 1, tbls,
                                    Append(currentTable, ParseRow(trimmedLine)), TRUE)
                     ELSE IF inTbl /\ Len(currentTable) > 0
                          THEN Walk(k + 1, Append(tbls, currentTable), <<>>, FALSE)
                          ELSE Walk(k + 1, tbls, currentTable, FALSE)
    IN  Walk(1, <<>>, <<>>, FALSE)

\* bounds of the grids handed to arrayToMarkdownTable
MaxRows == 2
MaxCells == 3

\* cell texts: empty, plain, dash-only, padded with a blank, holding a pipe,
\* holding a newline
GridCells ==
    { <<>>, <<"a">>, <<"-">>, <<" ", "b">>, <<"c", "|", "d">>, <<"e", "\n", "f">> }

\* the grids of exactly r rows that hold at most c cells in all
RECURSIVE GridsOf(_, _)
GridsOf(r, c) ==
    IF r = 0 THEN {<<>>}
    ELSE UNION { {<<row>> \o g : g \in GridsOf(r - 1, c - Len(row))} :
                 row \in SeqsUpTo(GridCells, c) }

Grids == UNION {GridsOf(r, MaxCells) : r \in 0..MaxRows}


InitSheets ==
    /\ pc = "sheets"
    /\ data \in Grids
    /\ markdownTable = <<>>
    /\ tableArray = <<>>
    /\ extractedTables = <<>>
    /\ IdleExcept("sheets")

DoArrayToMarkdownTable ==
    /\ pc = "sheets"
    /\ markdownTable' = ArrayToMarkdownTable(data)
    /\ pc' = "table"
    /\ UNCHANGED <<data, tableArray, extractedTables>>
    /\ Frame("sheets")

DoMarkdownTableToArray ==
    /\ pc = "table"
    /\ tableArray' = MarkdownTableToArray(markdownTable)
    /\ pc' = "array"
    /\ UNCHANGED <<data, markdownTable, extractedTables>>
    /\ Frame("sheets")

DoExtractTables ==
    /\ pc = "table"
    /\ extractedTables' = SheetsExtractTables(markdownTable)
    /\ pc' = "sheetTables"
    /\ UNCHANGED <<data, markdownTable, tableArray>>
    /\ Frame("sheets")

NextSheets == DoArrayToMarkdownTable \/ DoMarkdownTableToArray \/ DoExtractTables

SpecSheets == InitSheets /\ [][NextSheets]_vars

\* no cell of the grid holds a literal pipe or a newline
NoPipeNoNewline(grid) ==
    \A r \in 1..Len(grid) : \A j \in 1..Len(grid[r]) :
        \A k \in 1..Len(grid[r][j]) : grid[r][j][k] \notin {"|", "\n"}

\* a row of which every cell is made of whitespace, '-' and ':' only
BlankOrDashRow(row) ==
    \A j \in 1..Len(row) : \A k \in 1..Len(row[j]) :
        IsWs(row[j][k]) \/ row[j][k] \in {"-", ":"}

\* the rows that are not blank-or-dash rows, in order, each padded with empty
\* cells to the longest row of the grid and each cell trimmed
PaddedTrimmedRows(grid) ==
    LET width == MaxOf({Len(grid[r]) : r \in 1..Len(grid)})
        Pad(row) == [j \in 1..width |-> IF j <= Len(row) THEN Trim(row[j]) ELSE <<>>]
        Keep(row) == ~BlankOrDashRow(row)
        kept == SelectSeq(grid, Keep)
    IN  [r \in 1..Len(kept) |-> Pad(kept[r])]

\* a rectangular grid of trimmed cells without a blank-or-dash row
PlainGrid(grid) ==
    /\ \A r \in 1..Len(grid) :
           /\ Len(grid[r]) = Len(grid[1])
           /\ ~BlankOrDashRow(grid[r])
           /\ \A j \in 1..Len(grid[r]) : Trim(grid[r][j]) = grid[r][j]

\* C1 as stated: for every grid without pipe or newline in a cell,
\* markdownTableToArray(arrayToMarkdownTable(grid)) is the grid itself.
C1_RoundTripExact ==
    (pc = "array" /\ NoPipeNoNewline(data)) => tableArray = data

\* C1 amended: for every grid without pipe or newline in a cell the round
\* trip returns, in order, the rows that have a cell with a character other
\* than whitespace, '-' and ':', each padded with empty cells to the longest
\* row and each cell trimmed; rows made of blank or dash-only cells are read
\* back as separator lines and dropped. It is the grid itself for rectangular
\* grids of trimmed cells without such a row.
C1_RoundTripPaddedTrimmed ==
    (pc = "array" /\ NoPipeNoNewline(data)) =>
        /\ tableArray = PaddedTrimmedRows(data)
        /\ PlainGrid(data) => tableArray = data

\* a two-row grid without pipe or newline went through the round trip: one
\* row came back, the dash-only row did not
C1_Witness ==
    /\ pc = "array"
    /\ NoPipeNoNewline(data)
    /\ Len(data) = 2
    /\ Len(tableArray) = 1
    /\ tableArray[1] = data[1]
    /\ data[2] = << <<"-">> >>

(***************************************************************************)
(* SlidesConverter                                                         *)
(***************************************************************************)

NoMatch == [ok |-> FALSE, text |-> <<>>]

\* \s+(.+)$ at the start of r, r being one line: the text captured by (.+).
\* When only whitespace follows, \s+ gives its last character back to (.+).
WsThenText(r) ==
    LET w == RunLen(r, WsChars)
    IN  IF w = 0 THEN NoMatch
        ELSE IF Len(r) > w THEN [ok |-> TRUE, text |-> Drop(r, w)]
        ELSE IF w >= 2 THEN [ok |-> TRUE, text |-> <<r[w]>>]
        ELSE NoMatch

\* /^(#{1,n})\s+(.+)$/ on one line
HashHeading(line, n) ==
    LET h == RunLen(line, {"#"})
    IN  IF h < 1 \/ h > n THEN NoMatch ELSE WsThenText(Drop(line, h))

\* /^[\-\*]\s+(.+)$/ on one line
ListMatch(line) ==
    IF line # <<>> /\ line[1] \in {"-", "*"} THEN WsThenText(Tail(line)) ELSE NoMatch

\* SlidesConverter.extractTextFromContent: the runs of a text, with the
\* bold and italic wrapping
ExtractTextFromContent(textElements) ==
    LET Bold(run, text) ==
            IF run.bold /\ Trim(text) # <<>>
            THEN <<"*", "*">> \o Trim(text) \o <<"*", "*", " ">> ELSE text
        Italic(run, text) ==
            IF run.italic /\ Trim(text) # <<>>
            THEN <<"*">> \o Trim(text) \o <<"*", " ">> ELSE text
        RunText(run) == Italic(run, Bold(run, run.content))
    IN  Join([k \in 1..Len(textElements) |-> RunText(textElements[k])], <<>>)

\* cell.replace(/\n/g, ' ')
NewlinesToBlanks(cell) == [k \in 1..Len(cell) |-> IF cell[k] = NL THEN " " ELSE cell[k]]

\* SlidesConverter.extractTableContent
ExtractTableContent(tableRows) ==
    LET Cells(row) ==
            [j \in 1..Len(row) |->
                NewlinesToBlanks(EscapePipes(Trim(ExtractTextFromContent(row[j]))))]
        RowLines(r) ==
            IF r = 1
            THEN <<RowLine(Cells(tableRows[r])),
                   RowLine(Fill(Len(tableRows[r]), <<"-", "-", "-">>))>>
            ELSE <<RowLine(Cells(tableRows[r]))>>
        RECURSIVE From(_)
        From(r) == IF r > Len(tableRows) THEN <<>> ELSE RowLines(r) \o From(r + 1)
    IN  Join(From(1), <<NL>>)

\* SlidesConverter.extractSlideContent; pageElements is <<>> for a slide
\* without elements. notes is never assigned by the code.
ExtractSlideContent(pageElements) ==
    LET NonBlank(l) == Trim(l) # <<>>
        RECURSIVE Walk(_, _, _, _)
        Walk(k, title, body, isFirstText) ==
            IF k > Len(pageElements)
            THEN [title |-> title, body |-> body, notes |-> <<>>]
            ELSE
                LET element == pageElements[k]
                    text == ExtractTextFromContent(element.text)
                    imageUrl == IF element.contentUrl # <<>> THEN element.contentUrl
                                ELSE element.sourceUrl
                    tableMarkdown == ExtractTableContent(element.tableRows)
                IN  CASE element.kind = "shape" /\ isFirstText /\ Trim(text) # <<>> ->
                            Walk(k + 1, Trim(text), body, FALSE)
                      [] element.kind = "shape" /\ Trim(text) # <<>> ->
                            Walk(k + 1, title,
                                 body \o SelectSeq(Split(text, NL), NonBlank), isFirstText)
                      [] element.kind = "table" /\ tableMarkdown # <<>> ->
                            Walk(k + 1, title, body \o <<tableMarkdown>>, isFirstText)
                      [] element.kind = "image" /\ imageUrl # <<>> ->
                            Walk(k + 1, title,
                                 body \o << <<"!", "[", "I", "m", "a", "g", "e", "]", "(">>
                                            \o imageUrl \o <<")">> >>,
                                 isFirstText)
                      [] OTHER -> Walk(k + 1, title, body, isFirstText)
    IN  Walk(1, <<>>, <<>>, TRUE)

\* SlidesConverter.toMarkdown
SlidesToMarkdown(p) ==
    LET n == Len(p.slides)
        BodyLine(item) ==
            IF StartsWith(item, <<"|">>) THEN <<item>>
            ELSE IF Trim(item) # <<>> THEN << <<"-", " ">> \o item >>
            ELSE <<>>
        RECURSIVE BodyLines(_)
        BodyLines(body) ==
            IF body = <<>> THEN <<>> ELSE BodyLine(Head(body)) \o BodyLines(Tail(body))
        SlideLines(k) ==
            LET c == ExtractSlideContent(p.slides[k])
            IN  << <<"#", "#", " ", "S", "l", "i", "d", "e", " ">> \o NumStr(k)
                   \o (IF c.title # <<>> THEN <<":", " ">> \o c.title ELSE <<>>),
                   <<>> >>
                \o (IF Len(c.body) > 0 THEN BodyLines(c.body) \o << <<>> >> ELSE <<>>)
                \o (IF c.notes # <<>>
                    THEN << <<">", " ", "*", "*", "N", "o", "t", "e", "s", ":", "*", "*", " ">>
                            \o c.notes, <<>> >>
                    ELSE <<>>)
                \o (IF k < n THEN << <<"-", "-", "-">>, <<>> >> ELSE <<>>)
        RECURSIVE From(_)
        From(k) == IF k > n THEN <<>> ELSE SlideLines(k) \o From(k + 1)
    IN  Join(<< <<"#", " ">> \o p.title,
                <<>>,
                <<"*">> \o NumStr(n) \o <<" ", "s", "l", "i", "d", "e", "s", "*">>,
                <<>>,
                <<"-", "-", "-">>,
                <<>> >> \o From(1),
             <<NL>>)

\* markdown.split(/---\n*/)
RECURSIVE SplitSections(_)
SplitSections(md) ==
    IF ~Includes(md, <<"-", "-", "-">>) THEN <<md>>
    ELSE LET k == CHOOSE k \in 1..(Len(md) - 2) :
                      /\ SubSeq(md, k, k + 2) = <<"-", "-", "-">>
                      /\ \A j \in 1..(k - 1) : SubSeq(md, j, j + 2) # <<"-", "-", "-">>
             rest == Drop(md, k + 2)
         IN  <<SubSeq(md, 1, k - 1)>> \o SplitSections(Drop(rest, RunLen(rest, {NL})))

\* /^##\s+Slide\s+\d+:?\s*(.*)$/i on one line; text is the capture, trimmed
SlideHeadingMatch(line) ==
    LET r1 == Drop(line, 2)
        r2 == Drop(r1, RunLen(r1, WsChars))
        r3 == Drop(r2, 5)
        r4 == Drop(r3, RunLen(r3, WsChars))
        r5 == Drop(r4, RunLen(r4, Digits))
        r6 == IF StartsWith(r5, <<":">>) THEN Tail(r5) ELSE r5
    IN  IF /\ StartsWith(line, <<"#", "#">>)
           /\ RunLen(r1, WsChars) >= 1
           /\ Len(r2) >= 5
           /\ ToLowerCase(SubSeq(r2, 1, 5)) = <<"s", "l", "i", "d", "e">>
           /\ RunLen(r3, WsChars) >= 1
           /\ RunLen(r4, Digits) >= 1
        THEN [ok |-> TRUE, text |-> Trim(r6)]
        ELSE NoMatch

\* SlidesConverter.parseMarkdownToSlides
ParseMarkdownToSlides(md) ==
    LET slideSections == SplitSections(md)
        NonBlank(l) == Trim(l) # <<>>
        RECURSIVE Walk(_, _, _, _)
        Walk(ls, k, title, body) ==
            IF k > Len(ls) THEN [title |-> title, body |-> body]
            ELSE
                LET line == ls[k]
                    slideHeadingMatch == SlideHeadingMatch(line)
                    headingMatch == HashHeading(line, 6)
                    listMatch == ListMatch(line)
                IN  IF slideHeadingMatch.ok
                    THEN Walk(ls, k + 1, slideHeadingMatch.text, body)
                    ELSE IF headingMatch.ok /\ title = <<>>
                    THEN Walk(ls, k + 1, Trim(headingMatch.text), body)
                    ELSE IF listMatch.ok
                    THEN Walk(ls, k + 1, title, body \o <<Trim(listMatch.text)>>)
                    ELSE IF /\ StartsWith(line, <<"*">>)
                            /\ EndsWith(line, <<"*">>)
                            /\ Includes(line, <<"s", "l", "i", "d", "e">>)
                    THEN Walk(ls, k + 1, title, body)
                    ELSE IF Trim(line) # <<>> /\ ~StartsWith(line, <<">">>)
                    THEN Walk(ls, k + 1, title, body \o <<Trim(line)>>)
                    ELSE Walk(ls, k + 1, title, body)
        SectionSlides(section) ==
            LET ls == SelectSeq(Split(Trim(section), NL), NonBlank)
                slide == Walk(ls, 1, <<>>, <<>>)
            IN  IF Len(ls) = 0 THEN <<>>
                ELSE IF slide.title # <<>> \/ Len(slide.body) > 0 THEN <<slide>>
                ELSE <<>>
        RECURSIVE From(_)
        From(k) ==
            IF k > Len(slideSections) THEN <<>> ELSE SectionSlides(slideSections[k]) \o From(k + 1)
    IN  From(1)

\* bound on the number of slides of a presentation
MaxSlides == 2

Run(text) == [content |-> text, bold |-> FALSE, italic |-> FALSE]
BoldRun(text) == [content |-> text, bold |-> TRUE, italic |-> FALSE]
Shape(runs) ==
    [kind |-> "shape", text |-> runs, contentUrl |-> <<>>, sourceUrl |-> <<>>,
     tableRows |-> <<>>]
Image(url) ==
    [kind |-> "image", text |-> <<>>, contentUrl |-> <<>>, sourceUrl |-> url,
     tableRows |-> <<>>]
Table(rows) ==
    [kind |-> "table", text |-> <<>>, contentUrl |-> <<>>, sourceUrl |-> <<>>,
     tableRows |-> rows]

\* the slides presentations are made of: a title alone; a title and a shape
\* with two bullet lines; a bold title and a bullet; no element at all; a
\* title and an image; a title and a one-cell table
SlideKinds ==
    { << Shape(<<Run(<<"A", "\n">>)>>) >>,
      << Shape(<<Run(<<"B", "\n">>)>>), Shape(<<Run(<<"x", "\n", "y", "\n">>)>>) >>,
      << Shape(<<BoldRun(<<"C">>)>>), Shape(<<Run(<<"z">>)>>) >>,
      << >>,
      << Shape(<<Run(<<"D">>)>>), Image(<<"u">>) >>,
      << Shape(<<Run(<<"E">>)>>), Table(<< << <<Run(<<"h">>)>> >> >>) >> }

Presentations ==
    [title : {<<"D", "e", "c", "k">>, <<>>}, slides : SeqsUpTo(SlideKinds, MaxSlides)]

InitSlides ==
    /\ pc = "slides"
    /\ presentation \in Presentations
    /\ markdown = <<>>
    /\ slides = <<>>
    /\ IdleExcept("slides")

DoToMarkdown ==
    /\ pc = "slides"
    /\ markdown' = SlidesToMarkdown(presentation)
    /\ pc' = "markdown"
    /\ UNCHANGED <<presentation, slides>>
    /\ Frame("slides")

DoParseMarkdownToSlides ==
    /\ pc = "markdown"
    /\ slides' = ParseMarkdownToSlides(markdown)
    /\ pc' = "parsed"
    /\ UNCHANGED <<presentation, markdown>>
    /\ Frame("slides")

NextSlides == DoToMarkdown \/ DoParseMarkdownToSlides

SpecSlides == InitSlides /\ [][NextSlides]_vars

\* every slide holds text shapes only, a title shape with text first and
\* bullet shapes after it: no table, no image
TitleAndBulletsOnly(p) ==
    \A k \in 1..Len(p.slides) :
        /\ Len(p.slides[k]) >= 1
        /\ \A e \in 1..Len(p.slides[k]) :
              /\ p.slides[k][e].kind = "shape"
              /\ Trim(ExtractTextFromContent(p.slides[k][e].text)) # <<>>

\* C2 as stated: for a presentation of titles and bullets only,
\* parseMarkdownToSlides(toMarkdown(p)) has as many slides as p and the i-th
\* title read back is the title of the i-th slide of p.
C2_RoundTripKeepsSlides ==
    (pc = "parsed" /\ TitleAndBulletsOnly(presentation)) =>
        /\ Len(slides) = Len(presentation.slides)
        /\ \A k \in 1..Len(presentation.slides) :
               k <= Len(slides) =>
                   slides[k].title = ExtractSlideContent(presentation.slides[k]).title

(***************************************************************************)
(* NoteAnalyzer.detectQuestions                                            *)
(*                                                                         *)
(* Lines are numbered from 1 here: lines[k] is lines[k - 1] of the code.   *)
(* A character outside ASCII is written as its code point, "U+2713".       *)
(***************************************************************************)

\* correctAnswer: undefined
Undefined == "undefined"
\* detectCorrectOption returning null
Null == "null"

\* line.replace(/^[\-\*\d.#]+\s*/, '')
StripListPrefix(line) ==
    LET n == RunLen(line, {"-", "*", ".", "#"} \cup Digits)
    IN  IF n = 0 THEN line
        ELSE Drop(line, n + RunLen(Drop(line, n), WsChars))

\* /word/i.test(line), for a lower-case word
IncludesIgnoreCase(line, word) == Includes(ToLowerCase(line), word)

\* /^[a-eA-E][.)]\s*(.+)/ on a trimmed line
LetterMatch(optLine) ==
    IF /\ Len(optLine) >= 3
       /\ LowerChar(optLine[1]) \in {"a", "b", "c", "d", "e"}
       /\ optLine[2] \in {".", ")"}
    THEN [ok |-> TRUE,
          text |-> Drop(optLine, 2 + RunLen(Drop(optLine, 2), WsChars))]
    ELSE NoMatch

\* /^[\-\*]\s*\[[ xX]?\]\s*(.+)/ on a trimmed line
CheckMatch(optLine) ==
    LET r1 == Drop(optLine, 1)
        r2 == Drop(r1, RunLen(r1, WsChars))
        r3 == Drop(r2, 1)
        r4 == IF r3 # <<>> /\ r3[1] \in {" ", "x", "X"} /\ Len(r3) >= 2 /\ r3[2] = "]"
              THEN Tail(r3) ELSE r3
        r5 == Drop(r4, 1)
    IN  IF /\ optLine # <<>>
           /\ optLine[1] \in {"-", "*"}
           /\ StartsWith(r2, <<"[">>)
           /\ StartsWith(r4, <<"]">>)
           /\ r5 # <<>>
        THEN [ok |-> TRUE, text |-> Drop(r5, RunLen(r5, WsChars))]
        ELSE NoMatch

\* the window of lines that collectOptions and detectCorrectOption look at
OptionWindow == 15
\* a plain bullet is taken as an option below these limits
MaxBulletOptions == 10
MaxBulletLength == 80

\* the condition of the loop with only j < lines.length
InWindowToEnd(j, startIndex, n) == j <= n

\* j < lines.length && j < startIndex + 15, with lines counted from 1
InWindow(j, startIndex, n) == j <= n /\ j < startIndex + OptionWindow

\* NoteAnalyzer.collectOptions
CollectOptions(ls, startIndex) ==
    LET RECURSIVE Scan(_, _)
        Scan(j, options) ==
            IF ~InWindow(j, startIndex, Len(ls)) THEN options
            ELSE
                LET optLine == Trim(ls[j])
                    letterMatch == LetterMatch(optLine)
                    checkMatch == CheckMatch(optLine)
                    bulletMatch == ListMatch(optLine)
                IN  IF letterMatch.ok
                    THEN Scan(j + 1, Append(options, Trim(letterMatch.text)))
                    ELSE IF checkMatch.ok
                    THEN Scan(j + 1, Append(options, Trim(checkMatch.text)))
                    ELSE IF bulletMatch.ok /\ Len(options) < MaxBulletOptions
                    THEN IF Len(Trim(bulletMatch.text)) < MaxBulletLength
                         THEN Scan(j + 1, Append(options, Trim(bulletMatch.text)))
                         ELSE Scan(j + 1, options)
                    ELSE IF optLine = <<>> /\ Len(options) > 0
                    THEN options
                    ELSE IF /\ ~StartsWith(optLine, <<"-">>)
                            /\ ~StartsWith(optLine, <<"*">>)
                            /\ Len(optLine) > 0
                            /\ Len(options) > 0
                    THEN options
                    ELSE Scan(j + 1, options)
    IN  Scan(startIndex, <<>>)

\* the words of /[U+2713 U+2705]|(correct|U+C815 U+B2F5)/gi
CorrectMarks == { <<"U+2713">>, <<"U+2705">>, <<"c", "o", "r", "r", "e", "c", "t">>, <<"U+C815", "U+B2F5">> }

\* s.replace(/pattern/gi, '') for a pattern that is one of the given words
RECURSIVE RemoveAll(_, _)
RemoveAll(s, words) ==
    IF s = <<>> THEN <<>>
    ELSE IF \E w \in words : StartsWith(ToLowerCase(s), w)
    THEN LET w == CHOOSE w \in words : StartsWith(ToLowerCase(s), w)
         IN  RemoveAll(Drop(s, Len(w)), words)
    ELSE <<Head(s)>> \o RemoveAll(Tail(s), words)

\* NoteAnalyzer.detectCorrectOption
DetectCorrectOption(ls, startIndex) ==
    LET RECURSIVE Scan(_)
        Scan(j) ==
            IF ~(j <= Len(ls) /\ j < startIndex + OptionWindow) THEN Null
            ELSE
                LET line == Trim(ls[j])
                    low == ToLowerCase(line)
                    \* /\[x\]\s*(.+)/i: the text after the first [x]
                    p == CHOOSE p \in 1..(Len(line) - 2) :
                             /\ SubSeq(low, p, p + 2) = <<"[", "x", "]">>
                             /\ \A q \in 1..(p - 1) : SubSeq(low, q, q + 2) # <<"[", "x", "]">>
                    rest == Drop(line, p + 2)
                    cleaned == RemoveAll(line, CorrectMarks)
                    stripped ==
                        Trim(Drop(cleaned,
                                  RunLen(cleaned,
                                         {"-", "*", ".", ")", "a", "b", "c", "d", "e",
                                          "A", "B", "C", "D", "E"} \cup WsChars)))
                IN  IF Includes(low, <<"[", "x", "]">>)
                    THEN IF rest = <<>> THEN Null
                         ELSE Trim(Drop(rest, RunLen(rest, WsChars)))
                    ELSE IF \E w \in CorrectMarks : Includes(low, w)
                    THEN IF stripped = <<>> THEN Null ELSE stripped
                    ELSE Scan(j + 1)
    IN  Scan(startIndex)

\* /^(?:Q\d*|Question\s*\d*|U+C9C8 U+BB38\s*\d*)[:.)]\s*(.+)/i on a trimmed line
QPrefixMatch(line) ==
    LET low == ToLowerCase(line)
        \* the text after the prefix word, its blanks (not after Q) and digits
        AfterWord(word, blanks) ==
            LET r1 == Drop(line, Len(word))
                r2 == IF blanks THEN Drop(r1, RunLen(r1, WsChars)) ELSE r1
            IN  Drop(r2, RunLen(r2, Digits))
        Tail3(r) ==
            IF r # <<>> /\ r[1] \in {":", ".", ")"} /\ Len(r) >= 2
            THEN [ok |-> TRUE, text |-> Drop(r, 1 + RunLen(Tail(r), WsChars))]
            ELSE NoMatch
        q == IF StartsWith(low, <<"q">>) THEN Tail3(AfterWord(<<"q">>, FALSE)) ELSE NoMatch
        question ==
            IF StartsWith(low, <<"q", "u", "e", "s", "t", "i", "o", "n">>)
            THEN Tail3(AfterWord(<<"q", "u", "e", "s", "t", "i", "o", "n">>, TRUE)) ELSE NoMatch
        korean ==
            IF StartsWith(low, <<"U+C9C8", "U+BB38">>)
            THEN Tail3(AfterWord(<<"U+C9C8", "U+BB38">>, TRUE)) ELSE NoMatch
    IN  IF q.ok THEN q ELSE IF question.ok THEN question ELSE korean

\* /rate|scale|U+D3C9 U+AC00|U+CC99 U+B3C4/i
ScaleWords == { <<"r", "a", "t", "e">>, <<"s", "c", "a", "l", "e">>, <<"U+D3C9", "U+AC00">>, <<"U+CC99", "U+B3C4">> }
\* /^(?:describe|explain|elaborate|U+C11C U+C220|U+C124 U+BA85)/i
ParagraphWords == { <<"d", "e", "s", "c", "r", "i", "b", "e">>, <<"e", "x", "p", "l", "a", "i", "n">>, <<"e", "l", "a", "b", "o", "r", "a", "t", "e">>, <<"U+C11C", "U+C220">>, <<"U+C124", "U+BA85">> }

\* a line must be longer than this to be taken as a question by pass 1
MinQuestionLength == 5
\* the most options of a multiple_choice question
MaxChoiceOptions == 5

\* Pass1 that asks for more than two options before it offers a choice
Pass1MinThree(ls, k) ==
    LET line == Trim(ls[k])
        options == CollectOptions(ls, k + 1)
        correctAnswer == DetectCorrectOption(ls, k + 1)
    IN  IF EndsWith(line, <<"?">>) /\ Len(line) > MinQuestionLength
        THEN << [text |-> Trim(StripListPrefix(line)),
                 type |-> IF Len(options) > 2
                          THEN IF Len(options) <= MaxChoiceOptions
                               THEN "multiple_choice" ELSE "dropdown"
                          ELSE "short_answer",
                 options |-> options,
                 required |-> TRUE,
                 correctAnswer |-> IF correctAnswer = Null THEN Undefined
                                   ELSE correctAnswer] >>
        ELSE <<>>

\* Pattern 1: line ending with "?"
Pass1(ls, k) ==
    LET line == Trim(ls[k])
        options == CollectOptions(ls, k + 1)
        correctAnswer == DetectCorrectOption(ls, k + 1)
    IN  IF EndsWith(line, <<"?">>) /\ Len(line) > MinQuestionLength
        THEN << [text |-> Trim(StripListPrefix(line)),
                 type |-> IF Len(options) >= 2
                          THEN IF Len(options) <= MaxChoiceOptions
                               THEN "multiple_choice" ELSE "dropdown"
                          ELSE "short_answer",
                 options |-> options,
                 required |-> TRUE,
                 correctAnswer |-> IF correctAnswer = Null THEN Undefined
                                   ELSE correctAnswer] >>
        ELSE <<>>

\* Pass2 without the guard on the question mark
Pass2NoGuard(ls, k) ==
    LET line == Trim(ls[k])
        qPrefixMatch == QPrefixMatch(line)
        options == CollectOptions(ls, k + 1)
    IN  IF qPrefixMatch.ok
        THEN << [text |-> Trim(qPrefixMatch.text),
                 type |-> IF Len(options) >= 2 THEN "multiple_choice"
                          ELSE "short_answer",
                 options |-> options,
                 required |-> TRUE,
                 correctAnswer |-> Undefined] >>
        ELSE <<>>

\* Pattern 2: "Q:" or "Question:" prefix
Pass2(ls, k) ==
    LET line == Trim(ls[k])
        qPrefixMatch == QPrefixMatch(line)
        options == CollectOptions(ls, k + 1)
    IN  IF qPrefixMatch.ok /\ ~EndsWith(line, <<"?">>)
        THEN << [text |-> Trim(qPrefixMatch.text),
                 type |-> IF Len(options) >= 2 THEN "multiple_choice"
                          ELSE "short_answer",
                 options |-> options,
                 required |-> TRUE,
                 correctAnswer |-> Undefined] >>
        ELSE <<>>

\* Pattern 3: rating / scale
Pass3(ls, k) ==
    LET line == Trim(ls[k])
    IN  IF /\ \E w \in ScaleWords : IncludesIgnoreCase(line, w)
           /\ \E c \in 1..Len(line) : IsDigit(line[c])
        THEN << [text |-> Trim(StripListPrefix(line)),
                 type |-> "scale",
                 options |-> <<>>,
                 required |-> TRUE,
                 correctAnswer |-> Undefined] >>
        ELSE <<>>

\* Pattern 4 with a required answer
Pass4Required(ls, k) ==
    LET line == Trim(ls[k])
    IN  IF \E w \in ParagraphWords : StartsWith(ToLowerCase(StripListPrefix(line)), w)
        THEN << [text |-> Trim(StripListPrefix(line)),
                 type |-> "paragraph",
                 options |-> <<>>,
                 required |-> TRUE,
                 correctAnswer |-> Undefined] >>
        ELSE <<>>

\* Pattern 4: "Describe" or "Explain"
Pass4(ls, k) ==
    LET line == Trim(ls[k])
    IN  IF \E w \in ParagraphWords : StartsWith(ToLowerCase(StripListPrefix(line)), w)
        THEN << [text |-> Trim(StripListPrefix(line)),
                 type |-> "paragraph",
                 options |-> <<>>,
                 required |-> FALSE,
                 correctAnswer |-> Undefined] >>
        ELSE <<>>

\* Deduplicate with the texts compared as written, not lower-cased
DeduplicateCaseSensitive(qs) ==
    LET RECURSIVE Walk(_, _)
        Walk(k, seen) ==
            IF k > Len(qs) THEN <<>>
            ELSE LET key == qs[k].text
                 IN  IF key \in seen THEN Walk(k + 1, seen)
                     ELSE <<qs[k]>> \o Walk(k + 1, seen \cup {key})
    IN  Walk(1, {})

\* the filter of detectQuestions: the first question of every lower-cased text
Deduplicate(qs) ==
    LET RECURSIVE Walk(_, _)
        Walk(k, seen) ==
            IF k > Len(qs) THEN <<>>
            ELSE LET key == ToLowerCase(qs[k].text)
                 IN  IF key \in seen THEN Walk(k + 1, seen)
                     ELSE <<qs[k]>> \o Walk(k + 1, seen \cup {key})
    IN  Walk(1, {})

\* bound on the number of lines of a note drawn from QuestionLines
MaxQuestionLines == 3

\* the lines notes are made of: a question, the same in capitals, a bullet, a
\* checked box, a blank line, a short prefixed question, a prefixed rating
\* question, a prefixed line without question mark
QuestionLines ==
    { <<"W", "h", "y", " ", "s", "o", "?">>, <<"W", "H", "Y", " ", "S", "O", "?">>, <<"-", " ", "a">>, <<"-", " ", "[", "x", "]", " ", "b">>, <<>>,
      <<"Q", ":", " ", "a", "?">>, <<"Q", "1", ":", " ", "R", "a", "t", "e", "?">>, <<"Q", ":", " ", "W", "h", "y", " ", "s", "o">> }

\* the example of the specification; a question with six options; one with
\* five; a note with requests to explain and to rate
QuestionSamples ==
    { << <<"W", "h", "i", "c", "h", " ", "o", "n", "e", "?">> >> \o [k \in 1..11 |-> <<"-", " ", "o">> \o NumStr(k)] \o << <<"a", ")", " ", "L">> >>,
      << <<"W", "h", "i", "c", "h", " ", "o", "n", "e", "?">>, <<>>, <<"t", "e", "x", "t">>, <<"-", " ", "a">>, <<"-", " ", "b">>, <<>>, <<"-", " ", "c">> >>,
      << <<"W", "h", "i", "c", "h", " ", "o", "n", "e", "?">>, <<"-", " ", "a">> >> \o [k \in 1..13 |-> <<"-", "-">>] \o << <<"-", " ", "z">>, <<"-", " ", "y">> >>,
      << <<"W", "h", "i", "c", "h", " ", "o", "n", "e", "?">>, <<"-", " ">> \o [k \in 1..80 |-> "L"], <<"-", " ">> \o [k \in 1..79 |-> "M"],
         <<"-", " ", "b">>, <<"t", "e", "x", "t">>, <<"-", " ", "c">> >>,
      << <<"E", "x", "p", "l", "a", "i", "n", " ", "w", "h", "y">>, <<"R", "a", "t", "e", " ", "u", "s", " ", "1", "-", "5", "?">>, <<"-", " ", "R", "a", "t", "e", " ", "u", "s", " ", "1", "-", "5">>, <<"D", "e", "s", "c", "r", "i", "b", "e", " ", "t", "h", "e", " ", "s", "c", "a", "l", "e", " ", "2">> >>,
      <<<<"W", "h", "a", "t", " ", "i", "s", " ", "2", "+", "2", "?">>, <<"-", " ", "3">>, <<"-", " ", "4">>, <<"-", " ", "5">>>>,
      <<<<"W", "h", "i", "c", "h", " ", "o", "n", "e", "?">>, <<"a", ")", " ", "1">>, <<"b", ")", " ", "2">>, <<"c", ")", " ", "3">>, <<"d", ")", " ", "4">>, <<"e", ")", " ", "5">>, <<"-", " ", "6">>>>,
      <<<<"W", "h", "i", "c", "h", " ", "f", "i", "v", "e", "?">>, <<"a", ")", " ", "1">>, <<"b", ")", " ", "2">>, <<"c", ")", " ", "3">>, <<"d", ")", " ", "4">>, <<"e", ")", " ", "5">>>> }

QuestionContents ==
    {Join(ls, <<NL>>) : ls \in SeqsUpTo(QuestionLines, MaxQuestionLines) \cup QuestionSamples}

InitQuestions ==
    /\ pc = "detect"
    /\ content \in QuestionContents
    /\ lines = Split(content, NL)
    /\ i = 1
    /\ questions = <<>>
    /\ origin = <<>>
    /\ detected = <<>>
    /\ IdleExcept("questions")

\* one turn of the loop of detectQuestions: the four patterns on lines[i]
DetectLine ==
    /\ pc = "detect"
    /\ i <= Len(lines)
    /\ LET p1 == Pass1(lines, i)
           p2 == Pass2(lines, i)
           p3 == Pass3(lines, i)
           p4 == Pass4(lines, i)
           Mark(ps, n) == [k \in 1..Len(ps) |-> [line |-> i, pass |-> n]]
       IN  /\ questions' = questions \o p1 \o p2 \o p3 \o p4
           /\ origin' = origin \o Mark(p1, 1) \o Mark(p2, 2) \o Mark(p3, 3) \o Mark(p4, 4)
    /\ i' = i + 1
    /\ UNCHANGED <<pc, content, lines, detected>>
    /\ Frame("questions")

\* the end of detectQuestions: deduplicate and return
ReturnQuestions ==
    /\ pc = "detect"
    /\ i > Len(lines)
    /\ detected' = Deduplicate(questions)
    /\ pc' = "detected"
    /\ UNCHANGED <<content, lines, i, questions, origin>>
    /\ Frame("questions")

NextQuestions == DetectLine \/ ReturnQuestions

SpecQuestions == InitQuestions /\ [][NextQuestions]_vars

\* the positions in questions of the first question of each lower-cased text
FirstOfKey ==
    {k \in 1..Len(questions) :
        \A j \in 1..(k - 1) :
            ToLowerCase(questions[j].text) # ToLowerCase(questions[k].text)}

\* the a-th smallest member of FirstOfKey
NthFirstOfKey(a) ==
    CHOOSE k \in FirstOfKey : Cardinality({j \in FirstOfKey : j < k}) = a - 1

\* questions are produced in line order, and in pass order within a line
ProducedInLineAndPassOrder ==
    /\ Len(origin) = Len(questions)
    /\ \A a, b \in 1..Len(origin) :
           a < b => \/ origin[a].line < origin[b].line
                    \/ /\ origin[a].line = origin[b].line
                       /\ origin[a].pass < origin[b].pass

\* C3: no two returned questions have the same lower-cased text; the record
\* kept for a text is the first one produced (line order, then pass order),
\* whole, whatever the options of the later ones; the kept questions are in
\* the order of their first occurrence.
C3_FirstOccurrenceKept ==
    /\ ProducedInLineAndPassOrder
    /\ pc = "detected" =>
        /\ \A a, b \in 1..Len(detected) :
               a < b => ToLowerCase(detected[a].text) # ToLowerCase(detected[b].text)
        /\ Len(detected) = Cardinality(FirstOfKey)
        /\ \A a \in 1..Len(detected) : detected[a] = questions[NthFirstOfKey(a)]

\* two lines gave the same question in different case with different
\* options, and only the first record was returned
C3_Witness ==
    /\ pc = "detected"
    /\ Len(questions) = 2
    /\ Len(detected) = 1
    /\ questions[1].text # questions[2].text
    /\ questions[1].options # questions[2].options
    /\ origin[1].line < origin[2].line
    /\ detected[1] = questions[1]

\* the questions that pass n produced for line k
ProducedBy(k, n) ==
    {a \in 1..Len(questions) : origin[a] = [line |-> k, pass |-> n]}

\* the lines the loop of detectQuestions has gone through
Processed == 1..(i - 1)

\* C7: every line that ends with '?' and is longer than 5 characters gives
\* one pass-1 question, with the options collected from the lines after it,
\* of type multiple_choice for 2 to 5 options, dropdown for more than 5 and
\* short_answer for fewer than 2; other lines give no pass-1 question; and
\* "What is 2+2?" followed by the bullets 3, 4, 5 gives exactly one question,
\* multiple_choice with the options 3, 4, 5.
C7_QuestionMarkLines ==
    /\ \A k \in Processed :
           LET line == Trim(lines[k])
               n == Len(CollectOptions(lines, k + 1))
           IN  IF EndsWith(line, <<"?">>) /\ Len(line) > 5
               THEN /\ Cardinality(ProducedBy(k, 1)) = 1
                    /\ \A a \in ProducedBy(k, 1) :
                           /\ questions[a].options = CollectOptions(lines, k + 1)
                           /\ n < 2 => questions[a].type = "short_answer"
                           /\ (2 <= n /\ n <= 5) => questions[a].type = "multiple_choice"
                           /\ n > 5 => questions[a].type = "dropdown"
               ELSE ProducedBy(k, 1) = {}
    /\ (pc = "detected"
           /\ lines = <<<<"W", "h", "a", "t", " ", "i", "s", " ", "2", "+", "2", "?">>, <<"-", " ", "3">>, <<"-", " ", "4">>, <<"-", " ", "5">>>>) =>
               /\ Len(detected) = 1
               /\ detected[1].type = "multiple_choice"
               /\ detected[1].options = <<<<"3">>, <<"4">>, <<"5">>>>
               /\ detected[1].text = <<"W", "h", "a", "t", " ", "i", "s", " ", "2", "+", "2", "?">>

\* a question followed by six options was returned as a dropdown
C7_Witness ==
    /\ pc = "detected"
    /\ \E a \in 1..Len(detected) :
           /\ detected[a].type = "dropdown"
           /\ Len(detected[a].options) = 6
           /\ detected[a] = questions[a]
           /\ origin[a].pass = 1

\* the texts that follow a Q / Question N / U+C9C8 U+BB38 N prefix of the
\* line: the prefix word, digits (after blanks, but not after Q), one of
\* : . ) and then the text
PrefixedTexts(line) ==
    LET low == ToLowerCase(line)
        AllIn(s, chars) == \A c \in 1..Len(s) : s[c] \in chars
        BlanksDigits(s) ==
            \E m \in 0..Len(s) :
                AllIn(SubSeq(s, 1, m), WsChars) /\ AllIn(SubSeq(s, m + 1, Len(s)), Digits)
        IsPrefix(p) ==
            \/ StartsWith(p, <<"q">>) /\ AllIn(Drop(p, 1), Digits)
            \/ StartsWith(p, <<"q", "u", "e", "s", "t", "i", "o", "n">>) /\ BlanksDigits(Drop(p, 8))
            \/ StartsWith(p, <<"U+C9C8", "U+BB38">>) /\ BlanksDigits(Drop(p, 2))
    IN  {Trim(Drop(line, n)) : n \in {n \in 2..(Len(line) - 1) :
                                        /\ line[n] \in {":", ".", ")"}
                                        /\ IsPrefix(SubSeq(low, 1, n - 1))}}

\* C8 as stated: a prefixed line gives a pass-2 question only when it does
\* not end with '?', and every prefixed line that ends with '?' gives a
\* pass-1 question and no pass-2 question.
C8_PrefixedQuestionMarkIsPass1 ==
    \A k \in Processed :
        LET line == Trim(lines[k])
        IN  PrefixedTexts(line) # {} =>
                /\ ProducedBy(k, 2) # {} => ~EndsWith(line, <<"?">>)
                /\ EndsWith(line, <<"?">>) =>
                       ProducedBy(k, 1) # {} /\ ProducedBy(k, 2) = {}

\* C8 amended: a prefixed line gives a pass-2 question exactly when it does
\* not end with '?': its text is the part after the prefix, its type is
\* multiple_choice with at least 2 options after it and short_answer
\* otherwise, and it has no correct answer. A prefixed line that ends with
\* '?' gives no pass-2 question, and a pass-1 question exactly when it is
\* longer than 5 characters: a shorter one gives no question of pass 1 or 2.
C8_PrefixedLines ==
    \A k \in Processed :
        LET line == Trim(lines[k])
            n == Len(CollectOptions(lines, k + 1))
        IN  PrefixedTexts(line) # {} =>
                /\ ProducedBy(k, 2) # {} <=> ~EndsWith(line, <<"?">>)
                /\ Cardinality(ProducedBy(k, 2)) <= 1
                /\ \A a \in ProducedBy(k, 2) :
                       /\ questions[a].text \in PrefixedTexts(line)
                       /\ questions[a].type =
                              IF n >= 2 THEN "multiple_choice" ELSE "short_answer"
                       /\ questions[a].correctAnswer = Undefined
                /\ EndsWith(line, <<"?">>) =>
                       (ProducedBy(k, 1) # {} <=> Len(line) > 5)

\* three prefixed lines went through the loop: a short one ending with '?'
\* gave nothing, a longer one ending with '?' gave a pass-1 question, one
\* without '?' gave a pass-2 question
C8_Witness ==
    /\ pc = "detected"
    /\ \E k1, k2, k3 \in Processed :
           /\ PrefixedTexts(Trim(lines[k1])) # {}
           /\ EndsWith(Trim(lines[k1]), <<"?">>)
           /\ \A n \in 1..4 : ProducedBy(k1, n) = {}
           /\ PrefixedTexts(Trim(lines[k2])) # {}
           /\ EndsWith(Trim(lines[k2]), <<"?">>)
           /\ ProducedBy(k2, 1) # {}
           /\ PrefixedTexts(Trim(lines[k3])) # {}
           /\ ProducedBy(k3, 2) # {}

(***************************************************************************)
(* NoteAnalyzer.extractTables                                              *)
(***************************************************************************)
\* /^\|[\s\-:|]+\|$/.test(line): a pipe, one or more of whitespace, dash,
\* colon, pipe, and a closing pipe
SeparatorChars == WsChars \cup {"-", ":", "|"}

IsSeparatorDashesOnly(line) ==
    /\ Len(line) >= 3
    /\ line[1] = "|"
    /\ line[Len(line)] = "|"
    /\ \A c \in 2..(Len(line) - 1) : line[c] \in {"-", "|"}

IsSeparator(line) ==
    /\ Len(line) >= 3
    /\ line[1] = "|"
    /\ line[Len(line)] = "|"
    /\ \A c \in 2..(Len(line) - 1) : line[c] \in SeparatorChars

\* line.startsWith('|') && line.endsWith('|')
IsPipeLine(line) == StartsWith(line, <<"|">>) /\ EndsWith(line, <<"|">>)

\* line.slice(1, -1).split('|').map(c => c.trim())
TableCells(line) ==
    LET cells == Split(SliceInner(line), "|")
    IN  [c \in 1..Len(cells) |-> Trim(cells[c])]

\* bound on the number of lines of a note drawn from TableLines
MaxTableLines == 3

\* the lines notes are made of: a row of two cells, a separator, a separator
\* with colons and blanks inside and blanks around, a row of one cell, a
\* blank line, a line of text, a pair of pipes
TableLines ==
    { <<"|", " ", "a", " ", "|", " ", "b", " ", "|">>, <<"|", "-", "-", "-", "|", "-", "-", "-", "|">>, <<" ", "|", " ", ":", "-", ":", " ", "|", " ">>, <<"|", "c", "|">>, <<>>, <<"t", "e", "x", "t">>, <<"|", "|">> }

\* a table with separator and rows, then text, then a table that starts right
\* after a separator; a table whose rows are parted by separators
TableSamples ==
    { <<<<"|", " ", "a", " ", "|", " ", "b", " ", "|">>, <<"|", "-", "-", "-", "|", "-", "-", "-", "|">>, <<"|", "c", "|">>, <<"t", "e", "x", "t">>, <<"|", "-", "-", "-", "|">>, <<"|", "c", "|">>, <<"|", " ", "a", " ", "|", " ", "b", " ", "|">>>>,
      <<<<"|", "c", "|">>, <<"|", ":", "-", "-", "|">>, <<"|", " ", "a", " ", "|", " ", "b", " ", "|">>, <<"|", " ", "-", " ", "|">>, <<"|", "c", "|">>, <<"|", "|", "|">>>> }

TableContents ==
    {Join(ls, <<NL>>) : ls \in SeqsUpTo(TableLines, MaxTableLines) \cup TableSamples}

InitTables ==
    /\ pc = "tables"
    /\ content \in TableContents
    /\ lines = Split(content, NL)
    /\ i = 1
    /\ tables = <<>>
    /\ currentHeaders = <<>>
    /\ currentRows = <<>>
    /\ startLine = -1
    /\ inTable = FALSE
    /\ rowLines = <<>>
    /\ tableRowLines = <<>>
    /\ IdleExcept("tables")

\* the push without the reset of currentRows
CloseTableKeepRows ==
    /\ tables' = Append(tables, [headers |-> currentHeaders, rows |-> currentRows,
                                 startLine |-> startLine])
    /\ tableRowLines' = Append(tableRowLines, rowLines)
    /\ currentHeaders' = <<>>
    /\ rowLines' = <<>>
    /\ inTable' = FALSE
    /\ UNCHANGED <<startLine, currentRows>>

\* tables.push({ headers: currentHeaders, rows: currentRows, startLine })
\* and the reset of the table in progress
CloseTable ==
    /\ tables' = Append(tables, [headers |-> currentHeaders, rows |-> currentRows,
                                 startLine |-> startLine])
    /\ tableRowLines' = Append(tableRowLines, rowLines)
    /\ currentHeaders' = <<>>
    /\ currentRows' = <<>>
    /\ rowLines' = <<>>
    /\ inTable' = FALSE
    /\ UNCHANGED startLine

\* one turn of the loop of extractTables on lines[i]; startLine holds the
\* index of the code, which counts lines from 0
TableLine ==
    /\ pc = "tables"
    /\ i <= Len(lines)
    /\ LET line == Trim(lines[i])
       IN  IF IsPipeLine(line)
           THEN IF IsSeparator(line)
                THEN UNCHANGED tableVars
                ELSE IF ~inTable
                     THEN /\ currentHeaders' = TableCells(line)
                          /\ startLine' = i - 1
                          /\ inTable' = TRUE
                          /\ UNCHANGED <<tables, currentRows, rowLines, tableRowLines>>
                     ELSE /\ currentRows' = Append(currentRows, TableCells(line))
                          /\ rowLines' = Append(rowLines, i - 1)
                          /\ UNCHANGED <<tables, currentHeaders, startLine, inTable,
                                         tableRowLines>>
           ELSE IF inTable /\ Len(currentHeaders) > 0
                THEN CloseTable
                ELSE UNCHANGED tableVars
    /\ i' = i + 1
    /\ UNCHANGED <<pc, content, lines>>
    /\ Frame("tables")

\* after the loop: the table in progress is closed, and tables returned
ReturnTables ==
    /\ pc = "tables"
    /\ i > Len(lines)
    /\ IF inTable /\ Len(currentHeaders) > 0
       THEN CloseTable
       ELSE UNCHANGED tableVars
    /\ pc' = "extracted"
    /\ UNCHANGED <<content, lines, i>>
    /\ Frame("tables")

NextTables == TableLine \/ ReturnTables

SpecTables == InitTables /\ [][NextTables]_vars

\* a separator line: between its outer pipes there is at least one
\* character, and only pipes, dashes, colons and whitespace
SeparatorLine(k) ==
    LET line == Trim(lines[k + 1])
        inner == SliceInner(line)
    IN  /\ IsPipeLine(line)
        /\ Len(line) >= 2
        /\ inner # <<>>
        /\ \A c \in 1..Len(inner) : inner[c] \in {"|", "-", ":", " ", "\t", "\r"}

\* the header and every row of a table are the cells of a line that is not
\* a separator line
FromDataLines(t, rl) ==
    /\ ~SeparatorLine(t.startLine)
    /\ t.headers = TableCells(Trim(lines[t.startLine + 1]))
    /\ Len(rl) = Len(t.rows)
    /\ \A r \in 1..Len(rl) :
           /\ ~SeparatorLine(rl[r])
           /\ t.rows[r] = TableCells(Trim(lines[rl[r] + 1]))

NoSeparatorRow ==
    /\ Len(tableRowLines) = Len(tables)
    /\ \A t \in 1..Len(tables) : FromDataLines(tables[t], tableRowLines[t])
    /\ inTable =>
           FromDataLines([headers |-> currentHeaders, rows |-> currentRows,
                          startLine |-> startLine], rowLines)

\* the turn of the loop on a separator line changes nothing of the tables
SeparatorConsumed ==
    (pc = "tables" /\ i <= Len(lines) /\ SeparatorLine(i - 1) /\ i' = i + 1)
        => UNCHANGED <<tables, currentHeaders, currentRows, startLine, inTable>>

\* C4: no table of extractTables has a header row or a data row made from a
\* separator line (a line that, between its outer pipes, has at least one
\* character and only pipes, dashes, colons and whitespace), and a separator
\* line is consumed without starting a table and without closing the table
\* in progress.
C4_SeparatorsAreNotData == [](NoSeparatorRow) /\ [][SeparatorConsumed]_vars

\* a returned table whose header line is followed by a separator line, that
\* has a data row after the separator, and a second table whose header comes
\* right after a separator line
C4_Witness ==
    /\ pc = "extracted"
    /\ \E t \in 1..Len(tables) :
           /\ tables[t].startLine + 2 <= Len(lines)
           /\ SeparatorLine(tables[t].startLine + 1)
           /\ Len(tables[t].rows) >= 1
           /\ tableRowLines[t][1] = tables[t].startLine + 2
    /\ \E t \in 1..Len(tables) :
           /\ tables[t].startLine >= 1
           /\ SeparatorLine(tables[t].startLine - 1)

(***************************************************************************)
(* NoteAnalyzer.analyze: extractTitle and analyzeDocs                      *)
(***************************************************************************)
\* the line terminators: . does not match them, and with the m flag ^
\* matches after one and $ before one
LineTerminators == {"\n", "\r"}

\* the positions of s where ^ matches with the m flag
LineStarts(s) == {p \in 1..Len(s) : p = 1 \/ s[p - 1] \in LineTerminators}

NoMatchM == [ok |-> FALSE, text |-> <<>>, end |-> 0]

\* \s+(.+)$ (minWs = 1) or \s*(.+)$ (minWs = 0) with the m flag, matched in s
\* from position from: the text (.+) captured and the position of its last
\* character. \s runs over line breaks; (.+) stays on one line. When only
\* whitespace follows up to the end of s, \s gives characters back until
\* (.+) finds one that is not a line terminator.
WsTextM(s, from, minWs) ==
    LET w == RunLen(Drop(s, from - 1), WsChars)
        q == from + w
        e == q + RunLen(Drop(s, q - 1), {s[c] : c \in 1..Len(s)} \ LineTerminators) - 1
        back == {t \in (from + minWs)..Len(s) : s[t] \notin LineTerminators}
    IN  IF q <= Len(s)
        THEN IF w >= minWs THEN [ok |-> TRUE, text |-> SubSeq(s, q, e), end |-> e]
             ELSE NoMatchM
        ELSE IF back = {} THEN NoMatchM
             ELSE [ok |-> TRUE, text |-> <<s[MaxOf(back)]>>, end |-> MaxOf(back)]

MinOf(S) == CHOOSE m \in S : \A n \in S : m <= n

\* .replace(/^["']|["']$/g, ''): one quote off the start, one off the end
StripQuotes(s) ==
    LET a == IF s # <<>> /\ s[1] \in {"\"", "'"} THEN 1 ELSE 0
        b == IF Len(s) > a /\ s[Len(s)] \in {"\"", "'"} THEN 1 ELSE 0
    IN  SubSeq(s, 1 + a, Len(s) - b)

\* fileName.replace(/\.md$/, '')
RemoveMdSuffix(name) ==
    IF EndsWith(name, <<".", "m", "d">>) THEN SubSeq(name, 1, Len(name) - 3) ELSE name

\* /^#\s+(.+)$/m at line start p
H1At(s, p) == IF s[p] = "#" THEN WsTextM(s, p + 1, 1) ELSE NoMatchM

\* /^title:\s*(.+)$/m at line start p
YamlTitleAt(s, p) ==
    IF StartsWith(Drop(s, p - 1), <<"t", "i", "t", "l", "e", ":">>) THEN WsTextM(s, p + 6, 0) ELSE NoMatchM

ExtractTitle(s, name) ==
    LET h1 == {p \in LineStarts(s) : H1At(s, p).ok}
        yaml == {p \in LineStarts(s) : YamlTitleAt(s, p).ok}
    IN  IF h1 # {} THEN Trim(H1At(s, MinOf(h1)).text)
        ELSE IF yaml # {} THEN StripQuotes(Trim(YamlTitleAt(s, MinOf(yaml)).text))
        ELSE RemoveMdSuffix(name)

\* /^(#{1,6})\s+(.+)$/ with the m flag at line start p
MaxHeadingLevel == 6

HeadingAt(s, p) ==
    LET h == RunLen(Drop(s, p - 1), {"#"})
    IN  IF h < 1 \/ h > MaxHeadingLevel THEN NoMatchM ELSE WsTextM(s, p + h, 1)

\* extractHeadings: the matches of the g-flagged pattern, each search
\* starting after the end of the match before
RECURSIVE HeadingsFrom(_, _)
HeadingsFrom(s, from) ==
    LET found == {p \in LineStarts(s) : p >= from /\ HeadingAt(s, p).ok}
        p == MinOf(found)
        m == HeadingAt(s, p)
    IN  IF found = {} THEN <<>>
        ELSE <<[level |-> RunLen(Drop(s, p - 1), {"#"}), text |-> Trim(m.text)]>>
                 \o HeadingsFrom(s, m.end + 1)

ExtractHeadings(s) == HeadingsFrom(s, 1)

\* content.replace(/^---[\s\S]*?---\n?/, ''): the front matter at the very
\* start, up to the first --- after the opening one, and one line break
StripFrontMatter(s) ==
    LET dashes == <<"-", "-", "-">>
        closes == {p \in 4..(Len(s) - 2) : SubSeq(s, p, p + 2) = dashes}
        after == MinOf(closes) + 3
    IN  IF StartsWith(s, dashes) /\ closes # {}
        THEN IF after <= Len(s) /\ s[after] = NL THEN Drop(s, after) ELSE Drop(s, after - 1)
        ELSE s

\* cleaned.split(/\n\n+/): the pieces between runs of two or more line breaks
RECURSIVE SplitBlocks(_)
SplitBlocks(s) ==
    LET gaps == {p \in 1..(Len(s) - 1) : s[p] = NL /\ s[p + 1] = NL}
        p == MinOf(gaps)
        run == RunLen(Drop(s, p - 1), {NL})
    IN  IF gaps = {} THEN <<s>>
        ELSE <<SubSeq(s, 1, p - 1)>> \o SplitBlocks(Drop(s, p - 1 + run))

IsParagraphBlock(b) ==
    LET trimmed == Trim(b)
    IN  /\ Len(trimmed) > 0
        /\ ~StartsWith(trimmed, <<"#">>)
        /\ ~StartsWith(trimmed, <<"|">>)
        /\ ~StartsWith(trimmed, <<"-">>)

CountParagraphs(s) == Len(SelectSeq(SplitBlocks(StripFrontMatter(s)), IsParagraphBlock))

\* content.match(/^(w1|w2|...)/im): a line starts with one of the words,
\* written here in lower case
LineStartsWithAny(s, words) ==
    \E p \in LineStarts(s) : \E w \in words : StartsWith(ToLowerCase(Drop(s, p - 1)), w)

ReportWords == { <<"a", "b", "s", "t", "r", "a", "c", "t">>, <<"i", "n", "t", "r", "o", "d", "u", "c", "t", "i", "o", "n">>, <<"c", "o", "n", "c", "l", "u", "s", "i", "o", "n">>, <<"r", "e", "f", "e", "r", "e", "n", "c", "e", "s">> }
LetterWords == { <<"d", "e", "a", "r">>, <<"s", "i", "n", "c", "e", "r", "e", "l", "y">>, <<"r", "e", "g", "a", "r", "d", "s">> }

ArticleMinHeadings == 3
ArticleMinParagraphs == 5
NotesMaxHeadings == 2
NotesMaxParagraphs == 3

\* the same conditions as one chain of alternatives, the first that holds
\* deciding
ContentTypeFirstMatch(s, hs, pcount) ==
    IF Len(hs) >= ArticleMinHeadings /\ pcount >= ArticleMinParagraphs THEN "article"
    ELSE IF LineStartsWithAny(s, ReportWords) THEN "report"
    ELSE IF LineStartsWithAny(s, LetterWords) THEN "letter"
    ELSE IF Len(hs) <= NotesMaxHeadings /\ pcount <= NotesMaxParagraphs THEN "notes"
    ELSE "general"

\* the first three if statements only, without the one for notes
ContentTypeWithoutNotes(s, hs, pcount) ==
    LET t0 == "general"
        t1 == IF Len(hs) >= ArticleMinHeadings /\ pcount >= ArticleMinParagraphs
              THEN "article" ELSE t0
        t2 == IF LineStartsWithAny(s, ReportWords) THEN "report" ELSE t1
        t3 == IF LineStartsWithAny(s, LetterWords) THEN "letter" ELSE t2
    IN  t3

\* the four if statements of analyzeDocs, one after the other
ContentType(s, hs, pcount) ==
    LET t0 == "general"
        t1 == IF Len(hs) >= ArticleMinHeadings /\ pcount >= ArticleMinParagraphs
              THEN "article" ELSE t0
        t2 == IF LineStartsWithAny(s, ReportWords) THEN "report" ELSE t1
        t3 == IF LineStartsWithAny(s, LetterWords) THEN "letter" ELSE t2
        t4 == IF Len(hs) <= NotesMaxHeadings /\ pcount <= NotesMaxParagraphs
              THEN "notes" ELSE t3
    IN  t4

\* bounds on the notes analyze is run on
MaxDocLines == 3
MaxHeadings == 4
MaxParagraphs == 6

\* the lines short notes are made of
DocLines ==
    { <<"#", " ", "H", "e", "l", "l", "o">>, <<"#">>, <<"S", "o", "m", "e", " ", "t", "e", "x", "t", ".">>, <<"t", "i", "t", "l", "e", ":", " ", "\"", "T", "\"">>, <<"t", "i", "t", "l", "e", ":">>, <<>>,
      <<"D", "e", "a", "r", " ", "S", "i", "r", ",">>, <<"#", "#", " ", "S", "u", "b">>, <<"-", "-", "-">> }

\* what a longer note opens with: nothing, a salutation, a report word, a
\* report word and a closing formula
DocOpeners ==
    { <<>>, <<"D", "e", "a", "r", " ", "S", "i", "r", ",">>, <<"I", "n", "t", "r", "o", "d", "u", "c", "t", "i", "o", "n">>, <<"A", "b", "s", "t", "r", "a", "c", "t", "\n", "R", "e", "g", "a", "r", "d", "s">> }

\* a note of h headings and p paragraphs after the opener, blank lines between
StructuredDoc(opener, h, p) ==
    LET n == IF h > p THEN h ELSE p
        Block(k) == (IF k <= h THEN << <<"#", " ", "H">> >> ELSE <<>>)
                        \o (IF k <= p THEN << <<"t", "e", "x", "t">> >> ELSE <<>>)
        RECURSIVE Blocks(_)
        Blocks(k) == IF k > n THEN <<>> ELSE Block(k) \o Blocks(k + 1)
    IN  Join((IF opener = <<>> THEN <<>> ELSE <<opener>>) \o Blocks(1), <<NL, NL>>)

DocContents ==
    {Join(ls, <<NL>>) : ls \in SeqsUpTo(DocLines, MaxDocLines)}
        \cup {StructuredDoc(o, h, p) : o \in DocOpeners, h \in 0..MaxHeadings, p \in 0..MaxParagraphs}
        \cup { <<"n", "o", " ", "h", "e", "a", "d", "i", "n", "g", " ", "h", "e", "r", "e">> }

FileNames == { <<"M", "y", "N", "o", "t", "e", ".", "m", "d">>, <<"f", "a", "l", "l", "b", "a", "c", "k", ".", "m", "d">>, <<"P", "l", "a", "i", "n">> }

InitAnalyze ==
    /\ pc = "analyze"
    /\ content \in DocContents
    /\ fileName \in FileNames
    /\ lines = Split(content, NL)
    /\ i = 0
    /\ noteTitle = <<>>
    /\ headings = <<>>
    /\ paragraphCount = 0
    /\ contentType = "general"
    /\ IdleExcept("analyze")

\* const title = this.extractTitle(content, fileName)
DoExtractTitle ==
    /\ pc = "analyze"
    /\ noteTitle' = ExtractTitle(content, fileName)
    /\ pc' = "titled"
    /\ UNCHANGED <<content, lines, i, fileName, headings, paragraphCount, contentType>>
    /\ Frame("analyze")

\* docs: this.analyzeDocs(content, title)
DoAnalyzeDocs ==
    /\ pc = "titled"
    /\ headings' = ExtractHeadings(content)
    /\ paragraphCount' = CountParagraphs(content)
    /\ contentType' = ContentType(content, ExtractHeadings(content), CountParagraphs(content))
    /\ pc' = "analyzed"
    /\ UNCHANGED <<content, lines, i, fileName, noteTitle>>
    /\ Frame("analyze")

NextAnalyze == DoExtractTitle \/ DoAnalyzeDocs

SpecAnalyze == InitAnalyze /\ [][NextAnalyze]_vars

\* a line of the note starts with one of the words, in any case
SomeLineStartsWith(words) ==
    \E k \in 1..Len(lines) : \E w \in words : StartsWith(ToLowerCase(lines[k]), w)

\* C5: the content type of analyzeDocs is that of the last rule that holds
\* in the order article (at least 3 headings and at least 5 paragraphs),
\* report (a line starts with abstract, introduction, conclusion or
\* references), letter (a line starts with dear, sincerely or regards),
\* notes (at most 2 headings and at most 3 paragraphs), and 'general' when
\* none holds; a note of 4 headings and 6 paragraphs without such words is an
\* article, and one that opens with "Dear Sir," is a letter.
C5_OrderedOverrides ==
    pc = "analyzed" =>
        LET article == Len(headings) >= 3 /\ paragraphCount >= 5
            report == SomeLineStartsWith(
                          { <<"a", "b", "s", "t", "r", "a", "c", "t">>, <<"i", "n", "t", "r", "o", "d", "u", "c", "t", "i", "o", "n">>, <<"c", "o", "n", "c", "l", "u", "s", "i", "o", "n">>, <<"r", "e", "f", "e", "r", "e", "n", "c", "e", "s">> })
            letter == SomeLineStartsWith({ <<"d", "e", "a", "r">>, <<"s", "i", "n", "c", "e", "r", "e", "l", "y">>, <<"r", "e", "g", "a", "r", "d", "s">> })
            notes == Len(headings) <= 2 /\ paragraphCount <= 3
        IN  /\ contentType = IF notes THEN "notes"
                             ELSE IF letter THEN "letter"
                             ELSE IF report THEN "report"
                             ELSE IF article THEN "article"
                             ELSE "general"
            /\ (Len(headings) = 4 /\ paragraphCount = 6 /\ ~report /\ ~letter)
                   => contentType = "article"
            /\ (Len(headings) = 4 /\ paragraphCount = 6 /\ StartsWith(content, <<"D", "e", "a", "r", " ", "S", "i", "r", ",">>))
                   => contentType = "letter"

\* a note of 4 headings and 6 paragraphs, with a line that starts with a
\* report word and a line that starts with a letter word, was analyzed as a
\* letter
C5_Witness ==
    /\ pc = "analyzed"
    /\ Len(headings) = 4
    /\ paragraphCount = 6
    /\ SomeLineStartsWith({ <<"a", "b", "s", "t", "r", "a", "c", "t">> })
    /\ SomeLineStartsWith({ <<"r", "e", "g", "a", "r", "d", "s">> })
    /\ contentType = "letter"

\* the lines of the note that are an H1 heading: a hash, whitespace, a text
H1Lines == {k \in 1..Len(lines) : HashHeading(lines[k], 1).ok}

\* the lines of the note that give a title: `title:` and a value
YamlTitleLines ==
    {k \in 1..Len(lines) : StartsWith(lines[k], <<"t", "i", "t", "l", "e", ":">>) /\ Len(lines[k]) > 6}

\* C6 as stated: the title analyze resolves is the text of the first H1
\* heading line if the note has one, otherwise the value of the first
\* `title:` line with the quotes around it stripped, otherwise the file name
\* without a trailing `.md`.
C6_TitleResolutionOrder ==
    pc \in {"titled", "analyzed"} =>
        noteTitle =
            IF H1Lines # {}
            THEN Trim(HashHeading(lines[MinOf(H1Lines)], 1).text)
            ELSE IF YamlTitleLines # {}
                 THEN StripQuotes(Trim(Drop(lines[MinOf(YamlTitleLines)], 6)))
                 ELSE IF EndsWith(fileName, <<".", "m", "d">>)
                      THEN SubSeq(fileName, 1, Len(fileName) - 3)
                      ELSE fileName

(***************************************************************************)
(* NoteAnalyzer.splitIntoSections                                          *)
(***************************************************************************)
\* the deepest heading level that starts a section: /^(#{1,3})\s+(.+)$/
MaxSectionLevel == 3

\* a filter that keeps a section that has a heading or a body
KeepSectionEither(s) == s.heading # <<>> \/ Len(Trim(s.content)) > 0

\* s.heading && s.content.trim().length > 0
KeepSection(s) == s.heading # <<>> /\ Len(Trim(s.content)) > 0

\* bound on the number of lines of a note drawn from SectionLines
MaxSectionLines == 3

\* the lines notes are made of: headings of level 1 and 2, a heading of
\* level 4, text, a blank line, a line of blanks, a hash followed by blanks
SectionLines ==
    { <<"#", " ", "A">>, <<"#", "#", " ", "B">>, <<"#", "#", "#", "#", " ", "D">>, <<"t", "e", "x", "t">>, <<>>, <<" ", " ">>, <<"#", " ", " ">> }

\* text before the first heading, a heading without body, a heading with body
SectionSamples ==
    { <<<<"t", "e", "x", "t">>, <<"#", " ", "A">>, <<"#", "#", " ", "B">>, <<"b", "o", "d", "y">>>>,
      <<<<"-", "-", "-">>, <<"t", "i", "t", "l", "e", ":", " ", "T">>, <<"-", "-", "-">>, <<"#", " ", "A">>, <<>>, <<"#", "#", "#", " ", "C">>, <<"b", "o", "d", "y">>, <<"m", "o", "r", "e">>>> }

SectionContents ==
    {Join(ls, <<NL>>) : ls \in SeqsUpTo(SectionLines, MaxSectionLines) \cup SectionSamples}

InitSections ==
    /\ pc = "sections"
    /\ content \in SectionContents
    /\ lines = Split(content, NL)
    /\ i = 1
    /\ sections = <<>>
    /\ currentHeading = <<>>
    /\ currentContent = <<>>
    /\ sectionsOut = <<>>
    /\ IdleExcept("sections")

\* if (currentHeading || currentContent.length > 0) sections.push(...)
PushSection ==
    IF currentHeading # <<>> \/ Len(currentContent) > 0
    THEN Append(sections, [heading |-> currentHeading,
                           content |-> Join(currentContent, <<NL>>)])
    ELSE sections

\* one turn of the loop of splitIntoSections on lines[i]
SectionLine ==
    /\ pc = "sections"
    /\ i <= Len(lines)
    /\ LET headingMatch == HashHeading(lines[i], MaxSectionLevel)
       IN  IF headingMatch.ok
           THEN /\ sections' = PushSection
                /\ currentHeading' = Trim(headingMatch.text)
                /\ currentContent' = <<>>
           ELSE /\ currentContent' = Append(currentContent, lines[i])
                /\ UNCHANGED <<sections, currentHeading>>
    /\ i' = i + 1
    /\ UNCHANGED <<pc, content, lines, sectionsOut>>
    /\ Frame("sections")

\* after the loop: the last section is pushed, the sections filtered
ReturnSections ==
    /\ pc = "sections"
    /\ i > Len(lines)
    /\ sections' = PushSection
    /\ sectionsOut' = SelectSeq(PushSection, KeepSection)
    /\ pc' = "split"
    /\ UNCHANGED <<content, lines, i, currentHeading, currentContent>>
    /\ Frame("sections")

NextSections == SectionLine \/ ReturnSections

SpecSections == InitSections /\ [][NextSections]_vars

\* the lines of the note that are a heading of level 1 to 3
SectionHeadingLines == {k \in 1..Len(lines) : HashHeading(lines[k], 3).ok}

\* the lines from a up to the next heading line, as one text
BodyFrom(a) ==
    LET next == {k \in SectionHeadingLines : k >= a}
        b == IF next = {} THEN Len(lines) ELSE MinOf(next) - 1
    IN  Join(SubSeq(lines, a, b), <<NL>>)

\* the sections of the note from line k on, one for each heading line
RECURSIVE HeadedSectionsFrom(_)
HeadedSectionsFrom(k) ==
    IF k > Len(lines) THEN <<>>
    ELSE IF k \in SectionHeadingLines
         THEN <<[heading |-> Trim(HashHeading(lines[k], 3).text),
                 content |-> BodyFrom(k + 1)]>> \o HeadedSectionsFrom(k + 1)
         ELSE HeadedSectionsFrom(k + 1)

\* the sections of the note: what precedes the first heading, with an empty
\* heading, and then one section for each heading
NoteSections ==
    (IF 1 \in SectionHeadingLines THEN <<>>
     ELSE <<[heading |-> <<>>, content |-> BodyFrom(1)]>>) \o HeadedSectionsFrom(1)

HasHeading(s) == s.heading # <<>>
HasBody(s) == \E c \in 1..Len(s.content) : s.content[c] \notin WsChars
HasHeadingOrBody(s) == HasHeading(s) \/ HasBody(s)
HasHeadingAndBody(s) == HasHeading(s) /\ HasBody(s)

\* C9 as stated: splitIntoSections drops a section if and only if it has an
\* empty heading and a body without non-whitespace content: a section with a
\* heading and an empty body is kept, and non-blank content before the first
\* heading is returned as a section with an empty heading.
C9_DropsOnlyEmptySections ==
    pc = "split" => sectionsOut = SelectSeq(NoteSections, HasHeadingOrBody)

\* C9 amended: splitIntoSections drops a section if and only if it has an
\* empty heading or a body without non-whitespace content: a section with a
\* heading and an empty body is dropped, content before the first level-1..3
\* heading is never returned, and the sections kept stay in the order of the
\* note.
C9_KeepsHeadedSectionsWithBody ==
    pc = "split" =>
        /\ sectionsOut = SelectSeq(NoteSections, HasHeadingAndBody)
        /\ \A a \in 1..Len(sectionsOut) : sectionsOut[a].heading # <<>>

\* a note with text before the first heading, a heading without body and a
\* heading with body was split: only the last section was returned
C9_Witness ==
    /\ pc = "split"
    /\ Len(NoteSections) = 3
    /\ ~HasHeading(NoteSections[1]) /\ HasBody(NoteSections[1])
    /\ HasHeading(NoteSections[2]) /\ ~HasBody(NoteSections[2])
    /\ HasHeadingAndBody(NoteSections[3])
    /\ sectionsOut = <<NoteSections[3]>>

(***************************************************************************)
(* DocsConverter.markdownToDocsRequests                                    *)
(***************************************************************************)
HeadingStyles ==
    <<"HEADING_1", "HEADING_2", "HEADING_3", "HEADING_4", "HEADING_5", "HEADING_6">>

\* the prefix parseLine puts before the text of a bullet: the literal of
\* the source, three characters and a blank
BulletPrefix == <<"U+00E2", "U+20AC", "U+00A2", " ">>

\* /^\d+\.\s+(.+)$/ on one line
OrderedMatch(line) ==
    LET d == RunLen(line, Digits)
    IN  IF d >= 1 /\ Len(line) > d /\ line[d + 1] = "."
        THEN WsThenText(Drop(line, d + 1))
        ELSE NoMatch

\* DocsConverter.parseLine
ParseLine(line) ==
    LET headingMatch == HashHeading(line, Len(HeadingStyles))
        ulMatch == ListMatch(line)
        olMatch == OrderedMatch(line)
    IN  IF headingMatch.ok
        THEN [text |-> headingMatch.text,
              style |-> HeadingStyles[RunLen(line, {"#"})],
              isList |-> FALSE, listType |-> Null]
        ELSE IF ulMatch.ok
        THEN [text |-> BulletPrefix \o ulMatch.text, style |-> Null,
              isList |-> TRUE, listType |-> "BULLET"]
        ELSE IF olMatch.ok
        THEN [text |-> olMatch.text, style |-> Null,
              isList |-> TRUE, listType |-> "NUMBER"]
        ELSE [text |-> line, style |-> Null, isList |-> FALSE, listType |-> Null]

\* text.indexOf(sub), counted from 0; sub occurs in text where it is used
IndexOf(text, sub) ==
    MinOf({p \in 1..(Len(text) - Len(sub) + 1) :
              SubSeq(text, p, p + Len(sub) - 1) = sub}) - 1

\* the length of the match of  mark{n} [^mark]+ mark{n}  at position p of
\* text, 0 when there is none
SpanLen(text, p, mark, n) ==
    LET others == {text[c] : c \in 1..Len(text)} \ {mark}
        r == RunLen(Drop(text, p + n - 1), others)
        Marks(a) == a + n - 1 <= Len(text) /\ \A c \in a..(a + n - 1) : text[c] = mark
    IN  IF Marks(p) /\ r >= 1 /\ Marks(p + n + r) THEN 2 * n + r ELSE 0

\* /\*\*([^*]+)\*\*|__([^_]+)__/ at position p
BoldLen(text, p) ==
    IF SpanLen(text, p, "*", 2) > 0 THEN SpanLen(text, p, "*", 2)
    ELSE SpanLen(text, p, "_", 2)

\* (?<!m)m([^m]+)m(?!m) at position p, for the mark m
LoneSpanLen(text, p, mark) ==
    LET n == SpanLen(text, p, mark, 1)
    IN  IF /\ n > 0
           /\ (p = 1 \/ text[p - 1] # mark)
           /\ (p + n > Len(text) \/ text[p + n] # mark)
        THEN n ELSE 0

\* /(?<!\*)\*([^*]+)\*(?!\*)|(?<!_)_([^_]+)_(?!_)/ at position p
ItalicLen(text, p) ==
    IF LoneSpanLen(text, p, "*") > 0 THEN LoneSpanLen(text, p, "*")
    ELSE LoneSpanLen(text, p, "_")

\* the while loops of createFormattingRequests: the matches of the g-flagged
\* pattern from position from on, each giving one updateTextStyle whose
\* range starts where indexOf finds the matched text
RECURSIVE BoldRequests(_, _, _)
BoldRequests(text, startIndex, from) ==
    LET found == {p \in from..Len(text) : BoldLen(text, p) > 0}
        p == MinOf(found)
        n == BoldLen(text, p)
        textStartIndex == IndexOf(text, SubSeq(text, p, p + n - 1))
    IN  IF found = {} THEN <<>>
        ELSE <<[kind |-> "updateTextStyle",
                startIndex |-> startIndex + textStartIndex,
                endIndex |-> startIndex + textStartIndex + (n - 4) + 4,
                style |-> "bold"]>> \o BoldRequests(text, startIndex, p + n)

RECURSIVE ItalicRequests(_, _, _)
ItalicRequests(text, startIndex, from) ==
    LET found == {p \in from..Len(text) : ItalicLen(text, p) > 0}
        p == MinOf(found)
        n == ItalicLen(text, p)
        textStartIndex == IndexOf(text, SubSeq(text, p, p + n - 1))
    IN  IF found = {} THEN <<>>
        ELSE <<[kind |-> "updateTextStyle",
                startIndex |-> startIndex + textStartIndex,
                endIndex |-> startIndex + textStartIndex + (n - 2) + 2,
                style |-> "italic"]>> \o ItalicRequests(text, startIndex, p + n)

\* DocsConverter.createFormattingRequests
CreateFormattingRequests(text, startIndex) ==
    BoldRequests(text, startIndex, 1) \o ItalicRequests(text, startIndex, 1)

\* an index that moves on by the text without its line break
AdvanceWithoutNewline(index, textToInsert) == index + Len(textToInsert) - 1

\* insertIndex += textToInsert.length
Advance(index, textToInsert) == index + Len(textToInsert)

\* the requests of a line with the text styles computed from the index
\* after the line
LineRequestsStyledAfter(parsed, index) ==
    LET textToInsert == parsed.text \o <<NL>>
    IN  <<[kind |-> "insertText", index |-> index, text |-> textToInsert]>>
            \o (IF parsed.style # Null
                THEN <<[kind |-> "updateParagraphStyle", startIndex |-> index,
                        endIndex |-> index + Len(textToInsert),
                        style |-> parsed.style]>>
                ELSE <<>>)
            \o CreateFormattingRequests(parsed.text, index + Len(textToInsert))

\* the requests of one turn of the loop for a line that is not empty
LineRequests(parsed, index) ==
    LET textToInsert == parsed.text \o <<NL>>
    IN  <<[kind |-> "insertText", index |-> index, text |-> textToInsert]>>
            \o (IF parsed.style # Null
                THEN <<[kind |-> "updateParagraphStyle", startIndex |-> index,
                        endIndex |-> index + Len(textToInsert),
                        style |-> parsed.style]>>
                ELSE <<>>)
            \o CreateFormattingRequests(parsed.text, index)

\* bound on the number of lines of a text drawn from RequestLines
MaxRequestLines == 3

\* the lines texts are made of: an empty line, a heading, a bullet, a
\* numbered item, plain text, the same bold span twice, an italic span
RequestLines ==
    { <<>>, <<"#", "#", " ", "T">>, <<"-", " ", "x">>, <<"1", ".", " ", "y">>, <<"t", "e", "x", "t">>, <<"*", "*", "b", "*", "*", " ", "*", "*", "b", "*", "*">>, <<"a", " ", "_", "i", "_">> }

\* a text with every kind of line
RequestSamples ==
    { <<<<"#", " ", "T">>, <<>>, <<"-", " ", "*", "*", "x", "*", "*">>, <<"1", "2", ".", " ", "*", "y", "*", " ", "_", "_", "z", "_", "_">>, <<"t", "e", "x", "t">>, <<>>>> }

RequestContents ==
    {Join(ls, <<NL>>) : ls \in SeqsUpTo(RequestLines, MaxRequestLines) \cup RequestSamples}

InitRequests ==
    /\ pc = "requests"
    /\ content \in RequestContents
    /\ lines = Split(content, NL)
    /\ i = 1
    /\ requests = <<>>
    /\ insertIndex = 1
    /\ requestLine = <<>>
    /\ IdleExcept("requests")

\* one turn of the loop of markdownToDocsRequests on lines[i]
RequestLineStep ==
    /\ pc = "requests"
    /\ i <= Len(lines)
    /\ LET parsed == ParseLine(lines[i])
           new == IF parsed.text = <<>> /\ ~parsed.isList
                  THEN <<[kind |-> "insertText", index |-> insertIndex, text |-> <<NL>>]>>
                  ELSE LineRequests(parsed, insertIndex)
       IN  /\ requests' = requests \o new
           /\ requestLine' = requestLine \o [k \in 1..Len(new) |-> i - 1]
           /\ insertIndex' = IF parsed.text = <<>> /\ ~parsed.isList
                             THEN insertIndex + 1
                             ELSE Advance(insertIndex, parsed.text \o <<NL>>)
    /\ i' = i + 1
    /\ UNCHANGED <<pc, content, lines>>
    /\ Frame("requests")

\* return requests
ReturnRequests ==
    /\ pc = "requests"
    /\ i > Len(lines)
    /\ pc' = "requested"
    /\ UNCHANGED <<content, lines, i, requests, insertIndex, requestLine>>
    /\ Frame("requests")

NextRequests == RequestLineStep \/ ReturnRequests

SpecRequests == InitRequests /\ [][NextRequests]_vars

\* the positions of the insertText requests in the request sequence
InsertPositions == {a \in 1..Len(requests) : requests[a].kind = "insertText"}

\* the insertText request that comes next after the one at position a
NextInsert(a) == MinOf({b \in InsertPositions : b > a})

\* C10: the insertion index is one running cursor over the whole input: the
\* first insertText request has index 1, and the index of every later one is
\* the index of the insertText request before it plus the length of the text
\* that request inserted, which is the text of the line (for a bullet after
\* the bullet prefix) and the one line break added to it (the line break
\* alone for an empty line); there is one
\* insertText request for each line, so the index never resets at a line
\* boundary and grows strictly from the first line to the last.
C10_RunningInsertIndex ==
    pc \in {"requests", "requested"} =>
        /\ Cardinality(InsertPositions) = i - 1
        /\ \A a \in InsertPositions :
               LET r == requests[a]
                   line == lines[requestLine[a] + 1]
               IN  /\ Len(r.text) >= 1
                   /\ r.text[Len(r.text)] = NL
                   /\ \A c \in 1..(Len(r.text) - 1) : r.text[c] # NL
                   /\ line = <<>> => r.text = <<NL>>
                   /\ LET inserted == SubSeq(r.text, 1, Len(r.text) - 1)
                          bullet == <<"U+00E2", "U+20AC", "U+00A2", " ">>
                      IN  \/ EndsWith(line, inserted)
                          \/ /\ StartsWith(inserted, bullet)
                             /\ EndsWith(line, Drop(inserted, Len(bullet)))
                   /\ (\A b \in InsertPositions : a <= b) => r.index = 1
                   /\ \A b \in InsertPositions :
                          /\ b > a => requests[b].index > r.index
                          /\ (b > a /\ b = NextInsert(a)) =>
                                 requests[b].index = r.index + Len(r.text)
                   /\ (\A b \in InsertPositions : b <= a) =>
                          insertIndex = r.index + Len(r.text)

\* a text of six lines was converted: an empty line moved the index on by
\* one, and a bullet line, whose inserted text is longer than the line and
\* is followed by a text style request, moved it on by the inserted length
C10_Witness ==
    /\ pc = "requested"
    /\ Cardinality(InsertPositions) = 6
    /\ Len(requests) > 6
    /\ \E a \in InsertPositions :
           /\ requests[a].text = <<NL>>
           /\ a < Len(requests)
           /\ requests[a + 1].kind = "insertText"
           /\ requests[a + 1].index = requests[a].index + 1
    /\ \E a \in InsertPositions :
           /\ a + 2 <= Len(requests)
           /\ requests[a + 1].kind = "updateTextStyle"
           /\ requests[a + 2].kind = "insertText"
           /\ requests[a + 2].index = requests[a].index + Len(requests[a].text)
           /\ requests[a + 2].index > requests[a].index + Len(lines[requestLine[a] + 1])

\* the positions in text where the bold spans found from position from on
\* start, and the same for the italic spans
RECURSIVE BoldStarts(_, _)
BoldStarts(text, from) ==
    LET found == {p \in from..Len(text) : BoldLen(text, p) > 0}
    IN  IF found = {} THEN {}
        ELSE {MinOf(found)} \cup BoldStarts(text, MinOf(found) + BoldLen(text, MinOf(found)))

RECURSIVE ItalicStarts(_, _)
ItalicStarts(text, from) ==
    LET found == {p \in from..Len(text) : ItalicLen(text, p) > 0}
    IN  IF found = {} THEN {}
        ELSE {MinOf(found)}
                 \cup ItalicStarts(text, MinOf(found) + ItalicLen(text, MinOf(found)))

\* a text style request of the line of the insertion at position a, with
\* the given style and range
StyledInLine(a, style, first, last) ==
    \E b \in 1..Len(requests) :
        /\ requestLine[b] = requestLine[a]
        /\ requests[b].kind = "updateTextStyle"
        /\ requests[b].style = style
        /\ requests[b].startIndex = first
        /\ requests[b].endIndex = last

\* C11 as stated: for every bold or italic span of the text inserted for a
\* line there is an updateTextStyle request whose range starts at the
\* insertion index of the line plus the offset of that occurrence in the
\* inserted text and ends at the end of that occurrence, also when the same
\* span text occurs more than once on the line.
C11_EveryOccurrenceStyled ==
    pc \in {"requests", "requested"} =>
        \A a \in InsertPositions :
            LET text == SubSeq(requests[a].text, 1, Len(requests[a].text) - 1)
                index == requests[a].index
            IN  /\ \A p \in BoldStarts(text, 1) :
                       StyledInLine(a, "bold", index + p - 1,
                                    index + p - 1 + BoldLen(text, p))
                /\ \A p \in ItalicStarts(text, 1) :
                       StyledInLine(a, "italic", index + p - 1,
                                    index + p - 1 + ItalicLen(text, p))

\* no cell of the grid holds a newline
NoNewline(grid) ==
    \A r \in 1..Len(grid) : \A j \in 1..Len(grid[r]) :
        \A k \in 1..Len(grid[r][j]) : grid[r][j][k] # "\n"

\* C12 as stated: a cell with a literal pipe is written as \| and read back
\* by markdownTableToArray and by extractTables as one cell that holds the
\* pipe, so the rows read back have the cells of the rows written.
C12_EscapedPipeKeepsCell ==
    (PlainGrid(data) /\ NoNewline(data) /\ Len(data) > 0) =>
        /\ pc = "array" => tableArray = data
        /\ pc = "sheetTables" => extractedTables = <<data>>

(***************************************************************************)
(* SheetsConverter.getCellValue                                            *)
(***************************************************************************)
\* an optional field or argument: <<>> when it is absent (undefined), <<v>>
\* when it is present with value v
Absent == <<>>
Present(v) == <<v>>
IsPresent(o) == Len(o) > 0
ValueOf(o) == o[1]

\* n.toString() of an integer
NumberToString(n) == IF n < 0 THEN <<"-">> \o NumStr(0 - n) ELSE NumStr(n)

\* the branches of getCellValue on value: stringValue, numberValue, boolValue
ValueText(value) ==
    IF IsPresent(value.stringValue) THEN ValueOf(value.stringValue)
    ELSE IF IsPresent(value.numberValue) THEN NumberToString(ValueOf(value.numberValue))
    ELSE IF IsPresent(value.boolValue)
         THEN (IF ValueOf(value.boolValue) THEN <<"T", "R", "U", "E">> ELSE <<"F", "A", "L", "S", "E">>)
         ELSE <<>>

\* SheetsConverter.getCellValue; c is the optional cell. A string is truthy
\* when it is not empty, an object whenever it is present.
GetCellValue(c) ==
    IF ~IsPresent(c) THEN <<>>
    ELSE LET cd == ValueOf(c)
             value == IF IsPresent(cd.effectiveValue) THEN cd.effectiveValue
                      ELSE cd.userEnteredValue
         IN  IF IsPresent(cd.formattedValue) /\ ValueOf(cd.formattedValue) # <<>>
             THEN ValueOf(cd.formattedValue)
             ELSE IF ~IsPresent(value) THEN <<>>
                  ELSE ValueText(ValueOf(value))

\* the values the fields of a cell are drawn from
CellStrings == { <<>>, <<"s">> }
CellNumbers == {0, 12, -5}
CellBooleans == {TRUE, FALSE}

Optional(S) == {Absent} \cup {Present(v) : v \in S}

ExtendedValues ==
    [stringValue : Optional(CellStrings), numberValue : Optional({0, 12}),
     boolValue : Optional(CellBooleans)]
        \cup {[stringValue |-> Absent, numberValue |-> Present(n), boolValue |-> Absent] :
                 n \in CellNumbers}

Cells ==
    [formattedValue : Optional({ <<>>, <<"f">> }),
     effectiveValue : Optional(ExtendedValues),
     userEnteredValue : Optional(ExtendedValues)]

InitCell ==
    /\ pc = "cell"
    /\ cellData \in Optional(Cells)
    /\ cellValue = <<>>
    /\ IdleExcept("cell")

DoGetCellValue ==
    /\ pc = "cell"
    /\ cellValue' = GetCellValue(cellData)
    /\ pc' = "cellValue"
    /\ UNCHANGED cellData
    /\ Frame("cell")

NextCell == DoGetCellValue

SpecCell == InitCell /\ [][NextCell]_vars

\* a value object that is present and has a string, a number or a boolean
CarriesValue(o) ==
    /\ IsPresent(o)
    /\ \/ IsPresent(o[1].stringValue)
       \/ IsPresent(o[1].numberValue)
       \/ IsPresent(o[1].boolValue)

\* the string of a value object, else its number in decimal, else its
\* boolean as TRUE or FALSE
Rendered(v) ==
    IF IsPresent(v.stringValue) THEN v.stringValue[1]
    ELSE IF IsPresent(v.numberValue)
         THEN (IF v.numberValue[1] = 0 THEN <<"0">>
               ELSE IF v.numberValue[1] = 12 THEN <<"1", "2">> ELSE <<"-", "5">>)
         ELSE IF v.boolValue[1] THEN <<"T", "R", "U", "E">> ELSE <<"F", "A", "L", "S", "E">>

\* C13 as stated: the text of a cell comes from the first of formattedValue,
\* effectiveValue, userEnteredValue that is present and carries a value; in
\* effectiveValue or userEnteredValue a string is used as is, else a number
\* as its decimal string, else a boolean as TRUE or FALSE; a missing cell
\* and a cell none of whose three fields carries a value give the empty
\* string.
C13_FirstFieldWithValue ==
    pc = "cellValue" =>
        cellValue =
            IF ~IsPresent(cellData) THEN <<>>
            ELSE IF IsPresent(cellData[1].formattedValue) /\ cellData[1].formattedValue[1] # <<>>
                 THEN cellData[1].formattedValue[1]
                 ELSE IF CarriesValue(cellData[1].effectiveValue)
                      THEN Rendered(cellData[1].effectiveValue[1])
                      ELSE IF CarriesValue(cellData[1].userEnteredValue)
                           THEN Rendered(cellData[1].userEnteredValue[1])
                           ELSE <<>>

(***************************************************************************)
(* NoteAnalyzer.analyzeSheets                                              *)
(***************************************************************************)
\* NoteAnalyzer.extractTables as a function of the lines of the note
ExtractTables(ls) ==
    LET RECURSIVE Walk(_, _, _, _, _, _)
        Walk(k, tbls, hdrs, rows, start, inTbl) ==
            LET closed == Append(tbls, [headers |-> hdrs, rows |-> rows,
                                        startLine |-> start])
                line == Trim(ls[k])
            IN  IF k > Len(ls)
                THEN IF inTbl /\ Len(hdrs) > 0 THEN closed ELSE tbls
                ELSE IF IsPipeLine(line)
                     THEN IF IsSeparator(line)
                          THEN Walk(k + 1, tbls, hdrs, rows, start, inTbl)
                          ELSE IF ~inTbl
                               THEN Walk(k + 1, tbls, TableCells(line), rows, k - 1, TRUE)
                               ELSE Walk(k + 1, tbls, hdrs, Append(rows, TableCells(line)),
                                         start, inTbl)
                     ELSE IF inTbl /\ Len(hdrs) > 0
                          THEN Walk(k + 1, closed, <<>>, <<>>, start, FALSE)
                          ELSE Walk(k + 1, tbls, hdrs, rows, start, inTbl)
    IN  Walk(1, <<>>, <<>>, <<>>, -1, FALSE)

\* prevLine.replace(/^#{1,6}\s+/, '') only
ListTitleKeepColon(prevLine) ==
    LET h == RunLen(prevLine, {"#"})
        w == RunLen(Drop(prevLine, h), WsChars)
    IN  IF h >= 1 /\ h <= MaxHeadingLevel /\ w >= 1 THEN Drop(prevLine, h + w)
        ELSE prevLine

\* prevLine.replace(/^#{1,6}\s+/, '').replace(/:$/, '')
ListTitle(prevLine) ==
    LET h == RunLen(prevLine, {"#"})
        w == RunLen(Drop(prevLine, h), WsChars)
        bare == IF h >= 1 /\ h <= MaxHeadingLevel /\ w >= 1 THEN Drop(prevLine, h + w)
                ELSE prevLine
    IN  IF EndsWith(bare, <<":">>) THEN SubSeq(bare, 1, Len(bare) - 1) ELSE bare

\* the title extractLists gives a list that starts at line k: the nearest
\* line before it that is not blank, or nothing
TitleBefore(ls, k) ==
    LET before == {j \in 1..(k - 1) : Trim(ls[j]) # <<>>}
    IN  IF before = {} THEN <<>> ELSE ListTitle(Trim(ls[MaxOf(before)]))

\* NoteAnalyzer.extractLists
ExtractLists(ls) ==
    LET RECURSIVE Walk(_, _, _, _, _, _)
        Walk(k, out, items, ttl, numbered, inLst) ==
            LET closed == Append(out, [title |-> ttl, items |-> items,
                                       isNumbered |-> numbered])
                ulMatch == ListMatch(ls[k])
                olMatch == OrderedMatch(ls[k])
                item == IF ulMatch.ok THEN ulMatch.text ELSE olMatch.text
            IN  IF k > Len(ls)
                THEN IF inLst /\ Len(items) > 0 THEN closed ELSE out
                ELSE IF ulMatch.ok \/ olMatch.ok
                     THEN IF ~inLst
                          THEN Walk(k + 1, out, Append(items, item),
                                    IF \E j \in 1..(k - 1) : Trim(ls[j]) # <<>>
                                    THEN TitleBefore(ls, k) ELSE ttl,
                                    ~ulMatch.ok, TRUE)
                          ELSE Walk(k + 1, out, Append(items, item), ttl, numbered, inLst)
                     ELSE IF inLst /\ Len(items) > 0
                          THEN Walk(k + 1, closed, <<>>, <<>>, numbered, FALSE)
                          ELSE Walk(k + 1, out, items, ttl, numbered, inLst)
    IN  Walk(1, <<>>, <<>>, <<>>, FALSE, FALSE)

\* [:=\-U+2013 U+2014] : the characters that part a label from its number
DataSeparators == {":", "=", "-", "U+2013", "U+2014"}

\* (%|U+BA85|U+AC1C|U+C6D0|U+B2EC U+B7EC|U+AC74)? : the units after a number
DataUnits ==
    { <<"%">>, <<"U+BA85">>, <<"U+AC1C">>, <<"U+C6D0">>, <<"U+B2EC", "U+B7EC">>,
      <<"U+AC74">> }

\* \s*([\d,]+\.?\d*)\s*(unit)?$ on the rest of a line: whether it matches,
\* and the text of the group
NumberTail(rest) ==
    LET r == Drop(rest, RunLen(rest, WsChars))
        n1 == RunLen(r, Digits \cup {","})
        dot == IF Len(r) > n1 /\ r[n1 + 1] = "." THEN 1 ELSE 0
        n2 == RunLen(Drop(r, n1 + dot), Digits)
        after == Drop(r, n1 + dot + n2)
        unit == Drop(after, RunLen(after, WsChars))
    IN  IF n1 >= 1 /\ (unit = <<>> \/ unit \in DataUnits)
        THEN [ok |-> TRUE, text |-> SubSeq(r, 1, n1 + dot + n2)]
        ELSE NoMatch

\* [\s]*[:=\-...]\s*([\d,]+\.?\d*)\s*(unit)?$ from position e + 1 of a line
\* on: the label may end at position e
NumericValidEnd(line, e) ==
    LET k == RunLen(Drop(line, e), WsChars)
    IN  /\ e + k + 1 <= Len(line)
        /\ line[e + k + 1] \in DataSeparators
        /\ NumberTail(Drop(line, e + k + 1)).ok

\* the ways /^[\-\*]?\s*(.+?)[\s]*[:=\-...]\s*([\d,]+\.?\d*)\s*(unit)?$/
\* matches a line: <<p, a, e>> with p the length of the list mark, a the
\* first and e the last position of the label
NumericMatches(line) ==
    {c \in {0, 1} \X (1..Len(line)) \X (1..Len(line)) :
        /\ c[1] = 1 => line[1] \in {"-", "*"}
        /\ c[2] > c[1]
        /\ c[2] <= c[1] + 1 + RunLen(Drop(line, c[1]), WsChars)
        /\ c[3] >= c[2]
        /\ NumericValidEnd(line, c[3])}

\* the label and the number text of the way <<p, a, e>> to match a line
MatchAt(line, c) ==
    [ok |-> TRUE, label |-> SubSeq(line, c[2], c[3]),
     number |-> NumberTail(Drop(line, c[3] + RunLen(Drop(line, c[3]), WsChars) + 1)).text]

\* the first of the ways to match that the pattern finds. It tries the list
\* mark before no list mark, more blanks after the mark before fewer, and
\* a shorter label before a longer one.
FirstMatch(line, found) ==
    IF found = {}
    THEN [ok |-> FALSE, label |-> <<>>, number |-> <<>>]
    ELSE MatchAt(line, CHOOSE c \in found : \A d \in found :
                           \/ c[1] > d[1]
                           \/ c[1] = d[1] /\ c[2] > d[2]
                           \/ c[1] = d[1] /\ c[2] = d[2] /\ c[3] <= d[3])

\* line.match(/^[\-\*]?\s*(.+?)[\s]*[:=\-...]\s*([\d,]+\.?\d*)\s*(unit)?$/)
NumericMatch(line) == FirstMatch(line, NumericMatches(line))

\* the value of a run of digits
RECURSIVE DigitsValue(_)
DigitsValue(ds) ==
    IF ds = <<>> THEN 0
    ELSE 10 * DigitsValue(SubSeq(ds, 1, Len(ds) - 1))
             + (CHOOSE d \in 0..9 : NumStr(d) = <<ds[Len(ds)]>>)

\* a number that is not a number
NaN == [nan |-> TRUE, mantissa |-> 0, scale |-> 0]

\* parseFloat(s) for a text of digits with at most one point: the number
\* mantissa / 10^scale, without zeros at the end of the fraction
ParseFloat(s) ==
    LET n1 == RunLen(s, Digits)
        dot == IF Len(s) > n1 /\ s[n1 + 1] = "." THEN 1 ELSE 0
        frac == SubSeq(s, n1 + 2, n1 + 1 + RunLen(Drop(s, n1 + 1), Digits))
        RECURSIVE NoEndZeros(_)
        NoEndZeros(f) == IF f # <<>> /\ f[Len(f)] = "0"
                         THEN NoEndZeros(SubSeq(f, 1, Len(f) - 1)) ELSE f
        kept == IF dot = 1 THEN NoEndZeros(frac) ELSE <<>>
    IN  IF n1 = 0 /\ (dot = 0 \/ frac = <<>>) THEN NaN
        ELSE [nan |-> FALSE, mantissa |-> DigitsValue(SubSeq(s, 1, n1) \o kept),
              scale |-> Len(kept)]

\* match[2].replace(/,/g, '')
IsNotComma(c) == c # ","
RemoveCommas(s) == SelectSeq(s, IsNotComma)

\* label.length < 50
MaxLabelLength == 50

\* the datum of a label of any length at least 1
DatumAnyLabel(ok, label, value) ==
    IF ok /\ ~value.nan /\ Len(label) > 0
    THEN <<[label |-> label, value |-> value]>>
    ELSE <<>>

\* if (!isNaN(value) && label.length > 0 && label.length < 50) data.push(...)
Datum(ok, label, value) ==
    IF ok /\ ~value.nan /\ Len(label) > 0 /\ Len(label) < MaxLabelLength
    THEN <<[label |-> label, value |-> value]>>
    ELSE <<>>

\* the label and the value of a match: match[1].trim() and
\* parseFloat(match[2].replace(/,/g, ''))
MatchDatum(match) ==
    Datum(match.ok, Trim(match.label), ParseFloat(RemoveCommas(match.number)))

\* the datum extractNumericalData pushes for a line, if any
NumericalDatum(line) == MatchDatum(NumericMatch(line))

\* NoteAnalyzer.extractNumericalData
RECURSIVE ExtractNumericalData(_)
ExtractNumericalData(ls) ==
    IF ls = <<>> THEN <<>>
    ELSE NumericalDatum(Head(ls)) \o ExtractNumericalData(Tail(ls))

\* the thresholds of the chart suggestion
MinChartPoints == 2
MaxPiePoints == 6
MaxPieRows == 5

\* the chart type with the table rule tried first, the data rule after it
SuggestedChartTypeDataLast(tbls, nums) ==
    IF Len(nums) >= MinChartPoints
    THEN (IF Len(nums) <= MaxPiePoints THEN "pie" ELSE "bar")
    ELSE IF Len(tbls) > 0 /\ Len(tbls[1].rows) > MaxPieRows THEN "bar" ELSE "none"

\* the two if statements of analyzeSheets on suggestedChartType
SuggestedChartType(tbls, nums) ==
    LET byData == IF Len(nums) >= MinChartPoints
                  THEN (IF Len(nums) <= MaxPiePoints THEN "pie" ELSE "bar")
                  ELSE "none"
    IN  IF Len(tbls) > 0 /\ Len(tbls[1].rows) > MaxPieRows THEN "bar" ELSE byData

\* sheets: this.analyzeSheets(content)
DoAnalyzeSheets ==
    /\ pc = "analyzed"
    /\ analysisTables' = ExtractTables(lines)
    /\ lists' = ExtractLists(lines)
    /\ numericalData' = ExtractNumericalData(lines)
    /\ suggestedChartType' = SuggestedChartType(analysisTables', numericalData')
    /\ pc' = "sheetsAnalyzed"
    /\ UNCHANGED <<content, lines, i>>
    /\ Frame("sheetsAnalysis")

(***************************************************************************)
(* NoteAnalyzer.analyzeSlides                                              *)
(***************************************************************************)
\* NoteAnalyzer.splitIntoSections as a function of the lines of the note
SplitIntoSections(ls) ==
    LET Pushed(out, hd, body) ==
            IF hd # <<>> \/ Len(body) > 0
            THEN Append(out, [heading |-> hd, content |-> Join(body, <<NL>>)])
            ELSE out
        RECURSIVE Walk(_, _, _, _)
        Walk(k, out, hd, body) ==
            IF k > Len(ls) THEN SelectSeq(Pushed(out, hd, body), KeepSection)
            ELSE LET headingMatch == HashHeading(ls[k], MaxSectionLevel)
                 IN  IF headingMatch.ok
                     THEN Walk(k + 1, Pushed(out, hd, body), Trim(headingMatch.text), <<>>)
                     ELSE Walk(k + 1, out, hd, Append(body, ls[k]))
    IN  Walk(1, <<>>, <<>>, <<>>)

\* content.split(/[.!?]\s+/): the pieces between a full stop, exclamation
\* or question mark that is followed by whitespace, that whitespace dropped
RECURSIVE SplitSentences(_)
SplitSentences(s) ==
    LET ends == {p \in 1..(Len(s) - 1) : s[p] \in {".", "!", "?"} /\ s[p + 1] \in WsChars}
        p == MinOf(ends)
    IN  IF ends = {} THEN <<s>>
        ELSE <<SubSeq(s, 1, p - 1)>>
                 \o SplitSentences(Drop(s, p + RunLen(Drop(s, p), WsChars)))

\* the limits of extractBulletPoints, analyzeSlides and generateSpeakerNotes
MinSentenceLength == 10
MaxSentenceLength == 120
MaxKeySentences == 4
MaxSlideBullets == 6
MaxNoteSentences == 2

IsKeySentence(s) ==
    Len(Trim(s)) > MinSentenceLength /\ Len(Trim(s)) < MaxSentenceLength

\* arr.slice(0, n)
Take(arr, n) == SubSeq(arr, 1, IF Len(arr) < n THEN Len(arr) ELSE n)

\* NoteAnalyzer.extractBulletPoints
ExtractBulletPoints(body) ==
    LET ls == Split(body, NL)
        RECURSIVE Bullets(_)
        Bullets(k) ==
            IF k > Len(ls) THEN <<>>
            ELSE LET ulMatch == ListMatch(ls[k])
                     olMatch == OrderedMatch(ls[k])
                 IN  (IF ulMatch.ok THEN <<Trim(ulMatch.text)>>
                      ELSE IF olMatch.ok THEN <<Trim(olMatch.text)>>
                      ELSE <<>>) \o Bullets(k + 1)
        sentences == Take(SelectSeq(SplitSentences(body), IsKeySentence), MaxKeySentences)
    IN  IF Len(Bullets(1)) = 0
        THEN [k \in 1..Len(sentences) |-> Trim(sentences[k])]
        ELSE Bullets(1)

\* /^[\-\*]\s+.+$/ (kind "ul") and /^\d+\.\s+.+$/ (kind "ol") with the m
\* flag at line start p
ItemAt(s, p, kind) ==
    LET d == RunLen(Drop(s, p - 1), Digits)
    IN  IF kind = "ul"
        THEN (IF s[p] \in {"-", "*"} THEN WsTextM(s, p + 1, 1) ELSE NoMatchM)
        ELSE IF d >= 1 /\ p + d <= Len(s) /\ s[p + d] = "."
             THEN WsTextM(s, p + d + 1, 1)
             ELSE NoMatchM

\* s.replace(pattern, '') with the g and m flags, from position from on
RECURSIVE RemoveItems(_, _, _)
RemoveItems(s, kind, from) ==
    LET found == {p \in LineStarts(s) : p >= from /\ ItemAt(s, p, kind).ok}
        p == MinOf(found)
    IN  IF found = {} THEN SubSeq(s, from, Len(s))
        ELSE SubSeq(s, from, p - 1) \o RemoveItems(s, kind, ItemAt(s, p, kind).end + 1)

IsNoteSentence(s) == Len(Trim(s)) > MinSentenceLength

\* NoteAnalyzer.generateSpeakerNotes
GenerateSpeakerNotes(body) ==
    LET cleaned == Trim(RemoveItems(RemoveItems(body, "ul", 1), "ol", 1))
        sentences == SelectSeq(SplitSentences(cleaned), IsNoteSentence)
    IN  Trim(Join(Take(sentences, MaxNoteSentences), <<".", " ">>))

AcademicWords ==
    { <<"a", "b", "s", "t", "r", "a", "c", "t">>, <<"i", "n", "t", "r", "o", "d", "u", "c", "t", "i", "o", "n">>, <<"m", "e", "t", "h", "o", "d", "o", "l", "o", "g", "y">>, <<"r", "e", "s", "u", "l", "t", "s">>,
      <<"c", "o", "n", "c", "l", "u", "s", "i", "o", "n">>, <<"r", "e", "f", "e", "r", "e", "n", "c", "e", "s">> }

\* the slide analyzeSlides makes of a section, with no limit on the bullets
SectionSlideAllBullets(section) ==
    LET bullets == ExtractBulletPoints(section.content)
    IN  [title |-> section.heading,
         bulletPoints |-> bullets,
         layout |-> IF Len(bullets) > 0 THEN "title_body" ELSE "title",
         speakerNotes |-> GenerateSpeakerNotes(section.content)]

\* the slide analyzeSlides makes of a section
SectionSlide(section) ==
    LET bullets == ExtractBulletPoints(section.content)
    IN  [title |-> section.heading,
         bulletPoints |-> Take(bullets, MaxSlideBullets),
         layout |-> IF Len(bullets) > 0 THEN "title_body" ELSE "title",
         speakerNotes |-> GenerateSpeakerNotes(section.content)]

\* the slides of analyzeSlides: the title slide, then one for each section
ProposedSlides(s, ttl) ==
    LET secs == SplitIntoSections(Split(s, NL))
    IN  <<[title |-> ttl, bulletPoints |-> <<>>, layout |-> "title",
           speakerNotes |-> <<"I", "n", "t", "r", "o", "d", "u", "c", "t", "i", "o", "n">>]>>
            \o [k \in 1..Len(secs) |-> SectionSlide(secs[k])]

\* `~${minutes} min` with minutes = Math.max(1, Math.ceil(slideCount * 1.5))
EstimatedDuration(slideCount) ==
    LET ceil == (3 * slideCount + 1) \div 2
        minutes == IF ceil < 1 THEN 1 ELSE ceil
    IN  <<"~">> \o NumStr(minutes) \o <<" ", "m", "i", "n">>

\* slides: this.analyzeSlides(content, title)
DoAnalyzeSlides ==
    /\ pc = "sheetsAnalyzed"
    /\ slideProposals' = ProposedSlides(content, noteTitle)
    /\ theme' = IF LineStartsWithAny(content, AcademicWords) THEN "academic"
                ELSE "professional"
    /\ estimatedDuration' = EstimatedDuration(Len(slideProposals'))
    /\ pc' = "slidesAnalyzed"
    /\ UNCHANGED <<content, lines, i>>
    /\ Frame("slidesAnalysis")

(***************************************************************************)
(* NoteAnalyzer.analyzeForms                                               *)
(***************************************************************************)
\* NoteAnalyzer.detectQuestions as a function of the lines of the note
DetectQuestions(ls) ==
    LET RECURSIVE From(_)
        From(k) ==
            IF k > Len(ls) THEN <<>>
            ELSE Pass1(ls, k) \o Pass2(ls, k) \o Pass3(ls, k) \o Pass4(ls, k) \o From(k + 1)
    IN  Deduplicate(From(1))

\* /answer\s*key/ in lower-cased text
HasAnswerThenKey(low) ==
    \E p \in 1..Len(low) :
        /\ StartsWith(Drop(low, p - 1), <<"a", "n", "s", "w", "e", "r">>)
        /\ StartsWith(Drop(low, p + 5 + RunLen(Drop(low, p + 5), WsChars)), <<"k", "e", "y">>)

\* NoteAnalyzer.detectAnswerKey
DetectAnswerKey(s) ==
    LET low == ToLowerCase(s)
    IN  \/ HasAnswerThenKey(low)
        \/ Includes(low, <<"a", "n", "s", "w", "e", "r", ":">>)
        \/ Includes(low, <<"a", "n", "s", "w", "e", "r", "s", ":">>)
        \/ Includes(s, <<"U+C815", "U+B2F5">>)
        \/ Includes(s, <<"U+D574", "U+B2F5">>)
        \/ Includes(low, <<"[", "x", "]">>)
        \/ Includes(s, <<"U+2713">>)
        \/ Includes(s, <<"U+2705">>)

\* /quiz|test|exam|U+C2DC U+D5D8|U+D034 U+C988/i
QuizWords ==
    { <<"q", "u", "i", "z">>, <<"t", "e", "s", "t">>, <<"e", "x", "a", "m">>, <<"U+C2DC", "U+D5D8">>, <<"U+D034", "U+C988">> }

\* /survey|feedback|opinion|rating|satisfaction|.../i
SurveyWords ==
    { <<"s", "u", "r", "v", "e", "y">>, <<"f", "e", "e", "d", "b", "a", "c", "k">>, <<"o", "p", "i", "n", "i", "o", "n">>, <<"r", "a", "t", "i", "n", "g">>, <<"s", "a", "t", "i", "s", "f", "a", "c", "t", "i", "o", "n">>,
      <<"U+C124", "U+BB38">>, <<"U+C870", "U+C0AC">>, <<"U+C758", "U+ACAC">> }

\* /feedback|U+D53C U+B4DC U+BC31/i
FeedbackWords == { <<"f", "e", "e", "d", "b", "a", "c", "k">>, <<"U+D53C", "U+B4DC", "U+BC31">> }

\* /register|sign.?up|U+B4F1 U+B85D|U+C2E0 U+CCAD/i without sign.?up
RegistrationWords ==
    { <<"r", "e", "g", "i", "s", "t", "e", "r">>, <<"U+B4F1", "U+B85D">>, <<"U+C2E0", "U+CCAD">> }

\* /sign.?up/ in lower-cased text: sign, at most one character that is not
\* a line terminator, up
HasSignUp(low) ==
    \E p \in 1..Len(low) :
        /\ StartsWith(Drop(low, p - 1), <<"s", "i", "g", "n">>)
        /\ \/ StartsWith(Drop(low, p + 3), <<"u", "p">>)
           \/ /\ Len(low) >= p + 4
              /\ low[p + 4] \notin LineTerminators
              /\ StartsWith(Drop(low, p + 4), <<"u", "p">>)

HasAnyWord(s, words) == \E w \in words : IncludesIgnoreCase(s, w)

HasCorrectAnswer(q) == q.correctAnswer # Undefined
IsScaleQuestion(q) == q.type = "scale"

IsQuizLikely(answerKey, qs, s) ==
    \/ answerKey
    \/ Len(SelectSeq(qs, HasCorrectAnswer)) > 0
    \/ HasAnyWord(s, QuizWords)

IsSurveyLikely(s, qs) ==
    HasAnyWord(s, SurveyWords) \/ Len(SelectSeq(qs, IsScaleQuestion)) > 0

\* the form type with the survey test before the quiz test
FormTypeSurveyFirst(quizLikely, surveyLikely, s) ==
    IF surveyLikely THEN "survey"
    ELSE IF quizLikely THEN "quiz"
    ELSE IF HasAnyWord(s, FeedbackWords) THEN "feedback"
    ELSE IF HasAnyWord(s, RegistrationWords) \/ HasSignUp(ToLowerCase(s)) THEN "registration"
    ELSE "general"

\* the if / else if chain of analyzeForms on formType
FormType(quizLikely, surveyLikely, s) ==
    IF quizLikely THEN "quiz"
    ELSE IF surveyLikely THEN "survey"
    ELSE IF HasAnyWord(s, FeedbackWords) THEN "feedback"
    ELSE IF HasAnyWord(s, RegistrationWords) \/ HasSignUp(ToLowerCase(s)) THEN "registration"
    ELSE "general"

\* the description of the form
FormDescription(type, qs) ==
    IF type = "quiz"
    THEN <<"Q", "u", "i", "z", " ", "w", "i", "t", "h", " ">> \o NumStr(Len(qs)) \o <<" ", "q", "u", "e", "s", "t", "i", "o", "n", "s", " ", "g", "e", "n", "e", "r", "a", "t", "e", "d", " ", "f", "r", "o", "m", " ", "n", "o", "t", "e", " ", "c", "o", "n", "t", "e", "n", "t">>
    ELSE IF type = "survey"
    THEN <<"S", "u", "r", "v", "e", "y", " ", "w", "i", "t", "h", " ">> \o NumStr(Len(qs)) \o <<" ", "q", "u", "e", "s", "t", "i", "o", "n", "s", " ", "t", "o", " ", "g", "a", "t", "h", "e", "r", " ", "r", "e", "s", "p", "o", "n", "s", "e", "s">>
    ELSE <<"F", "o", "r", "m", " ", "w", "i", "t", "h", " ">> \o NumStr(Len(qs)) \o <<" ", "q", "u", "e", "s", "t", "i", "o", "n", "s", " ", "b", "a", "s", "e", "d", " ", "o", "n", " ", "n", "o", "t", "e", " ", "c", "o", "n", "t", "e", "n", "t">>

\* forms: this.analyzeForms(content, title)
DoAnalyzeForms ==
    /\ pc = "slidesAnalyzed"
    /\ formQuestions' = DetectQuestions(lines)
    /\ hasAnswerKey' = DetectAnswerKey(content)
    /\ isQuizLikely' = IsQuizLikely(hasAnswerKey', formQuestions', content)
    /\ isSurveyLikely' = IsSurveyLikely(content, formQuestions')
    /\ formType' = FormType(isQuizLikely', isSurveyLikely', content)
    /\ description' = FormDescription(formType', formQuestions')
    /\ pc' = "formsAnalyzed"
    /\ UNCHANGED <<content, lines, i>>
    /\ Frame("forms")

\* the steps of NoteAnalyzer.analyze
NextNote ==
    \/ DoExtractTitle
    \/ DoAnalyzeDocs
    \/ DoAnalyzeSheets
    \/ DoAnalyzeSlides
    \/ DoAnalyzeForms

(***************************************************************************)
(* NoteAnalyzer.analyze on notes with data lines and tables                *)
(***************************************************************************)
MaxDataLines == 7
MaxTableRows == 6

\* a label of n characters
FilledLabel(n) == [k \in 1..n |-> "L"]

\* lines of the form label, separator, number, optional unit
DataLinePool ==
    << <<"R", "e", "v", "e", "n", "u", "e", ":", " ", "1", ",", "2", "3", "4", ".", "5">>, <<"C", "o", "s", "t", " ", "=", " ", "2", "0", " ", "%">>, <<"-", " ", "U", "s", "e", "r", "s", " ", "-", " ", "3">>,
       <<"R", "a", "t", "e", " ", "U+2013", " ", "5">>,
       <<"n", " ", "U+2014", " ", "7", ".", "5", "0", "U+AC1C">>,
       <<"k", ":", " ", "8">>, <<"m", ":", "9">>, <<"*", " ", "p", " ", ":", " ", "1", ",", "0">> >>

DataLine(k) ==
    IF k <= Len(DataLinePool) THEN DataLinePool[k] ELSE <<"v", ":", " ">> \o NumStr(k)

DataLines(n) == [k \in 1..n |-> DataLine(k)]

\* a table of n data rows
GridLines(n) ==
    IF n = 0 THEN <<>>
    ELSE << <<"|", " ", "a", " ", "|", " ", "b", " ", "|">>, <<"|", "-", "-", "-", "|", "-", "-", "-", "|">> >> \o [k \in 1..n |-> <<"|", " ", "1", " ", "|", " ", "2", " ", "|">>]

\* lines that are near the form of a data line
OddLines ==
    { <<>>, <<"S", "o", "m", "e", " ", "t", "e", "x", "t", " ", "w", "i", "t", "h", "o", "u", "t", " ", "n", "u", "m", "b", "e", "r", "s">>,
      FilledLabel(MaxLabelLength - 1) \o <<":", " ", "5">>,
      FilledLabel(MaxLabelLength) \o <<":", " ", "5">>,
      <<"T", "o", "t", "a", "l", ":", " ", ",", ",">>, <<"T", "e", "m", "p", ":", " ", "-", "5">>, <<"-", ":", " ", "5">>, <<"-", " ", ":", " ", "5">>, <<"a", ":", ":", " ", "5">>,
      <<"x", "-", "1", "-", "2">>, <<"s", "i", "z", "e", ":", " ", "5", " ", "u", "n", "i", "t", "s">>, <<" ", " ", ":", " ", "5">>, <<"h", "a", "l", "f", ":", " ", ".", "5">>, <<"e", "n", "d", ":", " ", "1", "2", ".">> }

SheetNotes ==
    { Join((IF odd = <<>> THEN <<>> ELSE <<odd>>) \o DataLines(n), <<NL>>) :
          odd \in OddLines, n \in 0..MaxDataLines }
      \cup { Join(DataLines(n) \o GridLines(r), <<NL>>) :
                 n \in 0..MaxDataLines, r \in 1..MaxTableRows }
      \cup { Join(GridLines(1) \o <<<<"t", "e", "x", "t">>>> \o GridLines(r) \o DataLines(n), <<NL>>) :
                 r \in 1..MaxTableRows, n \in 0..MaxDataLines }

\* NoteAnalyzer.analyze(content, fileName) is called
InitNote(notes) ==
    /\ pc = "analyze"
    /\ content \in notes
    /\ fileName = <<"N", "o", "t", "e", ".", "m", "d">>
    /\ lines = Split(content, NL)
    /\ i = 0
    /\ noteTitle = <<>>
    /\ headings = <<>>
    /\ paragraphCount = 0
    /\ contentType = "general"
    /\ IdleExcept("analyze")

InitSheetsAnalysis == InitNote(SheetNotes)

SpecSheetsAnalysis == InitSheetsAnalysis /\ [][NextNote]_vars

\* analyzeSheets has returned
SheetsDone == pc \in {"sheetsAnalyzed", "slidesAnalyzed", "formsAnalyzed"}

\* C15: the suggested chart type is none for fewer than 2 extracted data
\* points, pie for 2 to 6 and bar for more than 6, and it is bar whenever
\* the first extracted table has more than 5 data rows
C15_ChartTypeThresholds ==
    SheetsDone =>
        LET n == Len(numericalData)
            bigFirst == Len(analysisTables) > 0 /\ Len(analysisTables[1].rows) > 5
        IN  /\ bigFirst => suggestedChartType = "bar"
            /\ ~bigFirst /\ n < 2 => suggestedChartType = "none"
            /\ ~bigFirst /\ n >= 2 /\ n <= 6 => suggestedChartType = "pie"
            /\ ~bigFirst /\ n > 6 => suggestedChartType = "bar"

\* a first table of more than 5 rows turns a pie into a bar
C15_TableOverridesPie ==
    /\ SheetsDone
    /\ Len(analysisTables) > 0 /\ Len(analysisTables[1].rows) > 5
    /\ Len(numericalData) >= 2 /\ Len(numericalData) <= 6
    /\ suggestedChartType = "bar"

\* the position of the last separator of a line, 0 when it has none
C18_LastSeparator(line) ==
    LET at == {p \in 1..Len(line) : line[p] \in DataSeparators}
    IN  IF at = {} THEN 0 ELSE MaxOf(at)

\* the text before the last separator, without the list mark when text
\* follows the mark
C18_Label(line) ==
    LET p == C18_LastSeparator(line)
        before == SubSeq(line, 1, p - 1)
    IN  IF before # <<>> /\ before[1] \in {"-", "*"} /\ Len(before) > 1
        THEN Trim(Tail(before)) ELSE Trim(before)

\* the datum of a line that has a label of 1 to 49 characters, a separator
\* and, up to the end of the line, a number that parses and an optional unit
C18_Datum(line) ==
    LET p == C18_LastSeparator(line)
        tail == NumberTail(Drop(line, p))
        value == ParseFloat(RemoveCommas(tail.text))
    IN  IF /\ p > 0 /\ tail.ok /\ ~value.nan
           /\ Len(C18_Label(line)) >= 1 /\ Len(C18_Label(line)) <= 49
        THEN <<[label |-> C18_Label(line), value |-> value]>>
        ELSE <<>>

RECURSIVE C18_Data(_)
C18_Data(ls) == IF ls = <<>> THEN <<>> ELSE C18_Datum(Head(ls)) \o C18_Data(Tail(ls))

\* C18: extractNumericalData returns, in line order, one datum per line
\* made of a label of 1 to 49 characters after trimming, a separator, a
\* number that parses once its commas are removed and an optional unit,
\* and nothing for any other line; Revenue: 1,234.5 gives (Revenue, 1234.5)
\* and Some text without numbers gives nothing
C18_OneDatumPerDataLine ==
    SheetsDone =>
        /\ numericalData = C18_Data(lines)
        /\ lines[1] = <<"R", "e", "v", "e", "n", "u", "e", ":", " ", "1", ",", "2", "3", "4", ".", "5">> =>
               numericalData[1] = [label |-> <<"R", "e", "v", "e", "n", "u", "e">>,
                                   value |-> [nan |-> FALSE, mantissa |-> 12345, scale |-> 1]]
        /\ lines = <<<<"S", "o", "m", "e", " ", "t", "e", "x", "t", " ", "w", "i", "t", "h", "o", "u", "t", " ", "n", "u", "m", "b", "e", "r", "s">>>> => numericalData = <<>>

\* a line with a label of 50 characters is left out and the lines after it
\* give their data
C18_LongLabelSkipped ==
    /\ SheetsDone
    /\ Len(lines) >= 3
    /\ lines[1] = FilledLabel(50) \o <<":", " ", "5">>
    /\ lines[2] = <<"R", "e", "v", "e", "n", "u", "e", ":", " ", "1", ",", "2", "3", "4", ".", "5">>
    /\ Len(numericalData) = Len(lines) - 1
    /\ numericalData[1].label = <<"R", "e", "v", "e", "n", "u", "e">>

(***************************************************************************)
(* NoteAnalyzer.analyze on notes with the keywords of forms                *)
(***************************************************************************)
MaxFormBlocks == 2

\* blocks of lines: a question with a marked option, an answer key, the
\* keywords of a quiz, of a survey, a rating line, the keywords of
\* feedback and of a registration, and lines without any of them
FormBlocks ==
    << << <<"P", "i", "c", "k", " ", "o", "n", "e", "?">>, <<"-", " ", "a">>, <<"-", " ", "b", " ", "(", "c", "o", "r", "r", "e", "c", "t", ")">> >>,
       << <<"A", "n", "s", "w", "e", "r", " ", "k", "e", "y", ":", " ", "b">> >>,
       << <<"W", "e", "e", "k", "l", "y", " ", "Q", "U", "I", "Z">> >>,
       << <<"l", "a", "t", "e", "s", "t", " ", "n", "e", "w", "s">> >>,
       << <<"C", "u", "s", "t", "o", "m", "e", "r", " ", "s", "u", "r", "v", "e", "y">> >>,
       << <<"R", "a", "t", "e", " ", "u", "s", " ", "1", "-", "5">> >>,
       << <<"S", "e", "n", "d", " ", "f", "e", "e", "d", "b", "a", "c", "k">> >>,
       << <<"U+D53C", "U+B4DC", "U+BC31">> >>,
       << <<"P", "l", "e", "a", "s", "e", " ", "r", "e", "g", "i", "s", "t", "e", "r">> >>,
       << <<"S", "i", "g", "n", " ", "u", "p", " ", "n", "o", "w">> >>,
       << <<"s", "i", "g", "n", "u", "p">> >>,
       << <<"s", "i", "g", "n", " ", " ", "u", "p">> >>,
       << <<"U+C2E0", "U+CCAD">> >>,
       << <<"H", "e", "l", "l", "o", " ", "w", "o", "r", "l", "d">> >> >>

\* the blocks with an index in S, in the order of FormBlocks
BlockLines(S) ==
    LET RECURSIVE From(_)
        From(k) == IF k > Len(FormBlocks) THEN <<>>
                   ELSE (IF k \in S THEN FormBlocks[k] ELSE <<>>) \o From(k + 1)
    IN  From(1)

FormNotes ==
    { Join(BlockLines(S), <<NL>>) :
          S \in {T \in SUBSET (1..Len(FormBlocks)) : Cardinality(T) <= MaxFormBlocks} }

InitForms == InitNote(FormNotes)

SpecForms == InitForms /\ [][NextNote]_vars

\* analyzeForms has returned
FormsDone == pc = "formsAnalyzed"

\* C16: the form type is quiz whenever the note is quiz likely (an answer
\* key, or a detected question with a correct answer, or a quiz keyword);
\* otherwise survey whenever it is survey likely; otherwise feedback on a
\* feedback keyword; otherwise registration on a registration keyword;
\* otherwise general
C16_FirstMatchWins ==
    FormsDone =>
        LET feedback == HasAnyWord(content, FeedbackWords)
            registration == HasAnyWord(content, RegistrationWords) \/ HasSignUp(ToLowerCase(content))
        IN  /\ isQuizLikely <=>
                   \/ hasAnswerKey
                   \/ \E k \in 1..Len(formQuestions) : formQuestions[k].correctAnswer # Undefined
                   \/ HasAnyWord(content, QuizWords)
            /\ isQuizLikely => formType = "quiz"
            /\ ~isQuizLikely /\ isSurveyLikely => formType = "survey"
            /\ ~isQuizLikely /\ ~isSurveyLikely /\ feedback => formType = "feedback"
            /\ ~isQuizLikely /\ ~isSurveyLikely /\ ~feedback /\ registration =>
                   formType = "registration"
            /\ ~isQuizLikely /\ ~isSurveyLikely /\ ~feedback /\ ~registration =>
                   formType = "general"

\* a note that is quiz likely and survey likely is a quiz
C16_QuizBeforeSurvey ==
    FormsDone /\ isQuizLikely /\ isSurveyLikely /\ formType = "quiz"

(***************************************************************************)
(* NoteAnalyzer.analyze on notes made of sections                          *)
(***************************************************************************)
MaxBullets == 7

\* n list items
BulletLines(n) == [k \in 1..n |-> <<"-", " ", "i", "t", "e", "m", " ">> \o NumStr(k)]

\* the bodies of a section: nothing, list items, numbered items, sentences
SectionBodies ==
    { <<>>, << <<"1", ".", " ", "f", "i", "r", "s", "t", " ", "s", "t", "e", "p">>, <<"2", ".", " ", "s", "e", "c", "o", "n", "d", " ", "s", "t", "e", "p">> >>,
      << <<"T", "h", "e", " ", "f", "i", "r", "s", "t", " ", "f", "i", "n", "d", "i", "n", "g", " ", "i", "s", " ", "h", "e", "r", "e", ".", " ", "T", "o", "o", " ", "s", "h", "o", "r", "t", ".", " ", "T", "h", "e", " ", "s", "e", "c", "o", "n", "d", " ", "o", "n", "e", " ", "f", "o", "l", "l", "o", "w", "s", "!", " ", " ", "A", "n", "d", " ", "a", " ", "t", "h", "i", "r", "d", "?">> >> }
      \cup { BulletLines(n) : n \in 1..MaxBullets }

\* the text before the first heading
Prefaces == { <<>>, << <<"p", "r", "e", "f", "a", "c", "e", " ", "t", "e", "x", "t">> >> }

SlideNotes ==
    { Join(pre \o << <<"#", " ", "I", "n", "t", "r", "o">> >> \o b1, <<NL>>) : pre \in Prefaces, b1 \in SectionBodies }
      \cup { Join(pre \o << <<"#", "#", " ", "I", "n", "t", "r", "o">> >> \o b1 \o << <<"#", "#", "#", " ", "R", "e", "s", "u", "l", "t", "s">> >> \o b2, <<NL>>) :
                 pre \in Prefaces, b1 \in SectionBodies, b2 \in SectionBodies }

InitSlidesAnalysis == InitNote(SlideNotes)

SpecSlidesAnalysis == InitSlidesAnalysis /\ [][NextNote]_vars

\* analyzeSlides has returned
SlidesDone == pc \in {"slidesAnalyzed", "formsAnalyzed"}

\* C17: the slides start with a title slide (layout title, no bullets, the
\* title of the note) followed by one slide for each section of
\* splitIntoSections, in order, titled with the heading of the section and
\* with at most 6 bullets; there are 1 plus the number of sections slides
C17_TitleSlideThenSections ==
    SlidesDone =>
        LET secs == SplitIntoSections(lines)
        IN  /\ Len(slideProposals) = 1 + Len(secs)
            /\ slideProposals[1].title = noteTitle
            /\ slideProposals[1].layout = "title"
            /\ slideProposals[1].bulletPoints = <<>>
            /\ \A k \in 1..Len(secs) :
                   /\ slideProposals[k + 1].title = secs[k].heading
                   /\ Len(slideProposals[k + 1].bulletPoints) <= 6

\* two sections, the second with more than 6 list items, give three slides
\* and the last has 6 bullets
C17_SevenItemsSixBullets ==
    /\ SlidesDone
    /\ Len(slideProposals) = 3
    /\ slideProposals[2].title = <<"I", "n", "t", "r", "o">>
    /\ slideProposals[3].title = <<"R", "e", "s", "u", "l", "t", "s">>
    /\ Len(ExtractBulletPoints(SplitIntoSections(lines)[2].content)) > 6
    /\ Len(slideProposals[3].bulletPoints) = 6

(***************************************************************************)
(* NoteAnalyzer.analyze on plain text                                      *)
(***************************************************************************)
MaxPlainParagraphs == 4

\* lines without heading, list mark, table, number, keyword or question
PlainLines == { <<"h", "e", "l", "l", "o", " ", "w", "o", "r", "l", "d">>, <<"J", "u", "s", "t", " ", "s", "o", "m", "e", " ", "w", "o", "r", "d", "s">>, <<"n", "o", "n", "e", " ", "o", "f", " ", "i", "t">> }

\* the empty text, blank text, and paragraphs of one plain line each
PlainNotes ==
    { Join(ps, <<NL, NL>>) : ps \in SeqsUpTo(PlainLines, MaxPlainParagraphs) }
        \cup { <<" ", " ", " ">>, <<NL>>, <<"h", "e", "l", "l", "o", " ", "w", "o", "r", "l", "d", "\n", "n", "o", "n", "e", " ", "o", "f", " ", "i", "t">> }

InitDefaults == InitNote(PlainNotes)

SpecDefaults == InitDefaults /\ [][NextNote]_vars

\* every extractor of the analysis has returned an empty sequence
C14_ExtractorsEmpty ==
    /\ headings = <<>>
    /\ analysisTables = <<>> /\ lists = <<>> /\ numericalData = <<>>
    /\ SplitIntoSections(lines) = <<>>
    /\ formQuestions = <<>>

\* C14 as stated: plain input, in particular the empty text and a single
\* plain line, gives empty sequences and the document content type general
C14_PlainInputIsGeneral ==
    FormsDone => C14_ExtractorsEmpty /\ contentType = "general"

\* C14: plain input, in particular the empty text and a single plain line,
\* never fails: every extractor returns an empty sequence, the chart type
\* is none, the only slide is the title slide, the form type is general,
\* and the document content type is notes for at most 3 paragraphs and
\* general for more
C14_PlainInputDefaults ==
    FormsDone =>
        /\ C14_ExtractorsEmpty
        /\ suggestedChartType = "none"
        /\ Len(slideProposals) = 1
        /\ formType = "general"
        /\ contentType = IF paragraphCount <= 3 THEN "notes" ELSE "general"
        /\ Len(lines) <= 1 => contentType = "notes"

\* the analysis of the empty text has finished with the content type notes
C14_EmptyTextIsNotes ==
    FormsDone /\ content = <<>> /\ C14_ExtractorsEmpty /\ contentType = "notes"

(***************************************************************************)
(* The rating questions and the required flag of detectQuestions           *)
(***************************************************************************)
\* line k of the note has a rating or scale keyword and a digit
C19_IsRatingLine(k) ==
    LET line == Trim(lines[k])
    IN  /\ \E w \in ScaleWords : IncludesIgnoreCase(line, w)
        /\ \E c \in 1..Len(line) : IsDigit(line[c])

\* no line before line k produced a question with the text of line k
C19_NoEarlierLine(k) ==
    \A j \in 1..Len(questions) :
        origin[j].line < k =>
            ToLowerCase(questions[j].text) # ToLowerCase(Trim(StripListPrefix(Trim(lines[k]))))

\* C19: for every line with a rating or scale keyword and a digit the
\* result of detectQuestions holds a question with the text of the line,
\* its list or heading prefix stripped, of type scale and without options,
\* provided no earlier line produced a question with the same lower-cased
\* text
C19_RatingLineGivesScale ==
    pc = "detected" =>
        \A k \in 1..Len(lines) :
            C19_IsRatingLine(k) /\ C19_NoEarlierLine(k) =>
                \E a \in 1..Len(detected) :
                    /\ detected[a].text = Trim(StripListPrefix(Trim(lines[k])))
                    /\ detected[a].type = "scale"
                    /\ detected[a].options = <<>>

\* C20: in the result of detectQuestions a question has required = false
\* exactly when pattern 4 produced it, and then its type is paragraph;
\* every question of another type has required = true
C20_OnlyParagraphOptional ==
    pc = "detected" =>
        \A a \in 1..Len(detected) :
            /\ detected[a].required = FALSE <=> origin[NthFirstOfKey(a)].pass = 4
            /\ detected[a].required = FALSE <=> detected[a].type = "paragraph"
            /\ detected[a].type \in {"multiple_choice", "dropdown", "short_answer", "scale"}
                   => detected[a].required = TRUE

\* a result with an optional paragraph question and a required scale question
C20_OptionalAndRequired ==
    /\ pc = "detected"
    /\ \E a, b \in 1..Len(detected) :
           /\ detected[a].type = "paragraph" /\ detected[a].required = FALSE
           /\ origin[NthFirstOfKey(a)].pass = 4
           /\ detected[b].type = "scale" /\ detected[b].required = TRUE

(***************************************************************************)
(* The runs of table lines of extractTables                                *)
(***************************************************************************)
\* line k of the note, trimmed, starts and ends with a pipe
C21_IsTableLine(k) ==
    LET l == Trim(lines[k])
    IN  Len(l) >= 1 /\ l[1] = "|" /\ l[Len(l)] = "|"

\* line k is a table line that is not a separator row
C21_IsRow(k) ==
    LET l == Trim(lines[k])
    IN  /\ C21_IsTableLine(k)
        /\ ~(Len(l) >= 3 /\ \A c \in 2..(Len(l) - 1) : l[c] \in SeparatorChars)

\* the rows of the maximal run of table lines that starts at line a
C21_RunRows(a) ==
    {k \in a..Len(lines) : C21_IsRow(k) /\ \A j \in a..k : C21_IsTableLine(j)}

\* the first lines of the maximal runs of table lines that have a row
C21_Runs ==
    {a \in 1..Len(lines) :
        /\ C21_IsTableLine(a)
        /\ a = 1 \/ ~C21_IsTableLine(a - 1)
        /\ C21_RunRows(a) # {}}

\* the n-th run in the order of the note
C21_Run(n) == CHOOSE a \in C21_Runs : Cardinality({b \in C21_Runs : b < a}) = n - 1

\* C21: extractTables returns, in the order of the note, one table for each
\* maximal run of consecutive table lines that has a row that is not a
\* separator: its header is the first such row, its data rows are the
\* other such rows in order, and its startLine is the index of the header
\* line; a run is closed by the first line that is not a table line or by
\* the end of the note
C21_OneTablePerRun ==
    pc = "extracted" =>
        /\ Len(tables) = Cardinality(C21_Runs)
        /\ \A n \in 1..Len(tables) :
               LET rows == C21_RunRows(C21_Run(n))
                   header == MinOf(rows)
                   at == tableRowLines[n]
               IN  /\ tables[n].startLine = header - 1
                   /\ tables[n].headers = TableCells(Trim(lines[header]))
                   /\ Len(tables[n].rows) = Len(at)
                   /\ {at[j] + 1 : j \in 1..Len(at)} = rows \ {header}
                   /\ \A j \in 1..Len(at) :
                          /\ j > 1 => at[j - 1] < at[j]
                          /\ tables[n].rows[j] = TableCells(Trim(lines[at[j] + 1]))

\* two tables are returned; the second starts after a line of text and a
\* separator and has a data row
C21_TwoRunsTwoTables ==
    /\ pc = "extracted"
    /\ Len(tables) = 2
    /\ tables[1].startLine = 0 /\ Len(tables[1].rows) = 1
    /\ tables[2].startLine = 5 /\ Len(tables[2].rows) = 1

(***************************************************************************)
(* The options collectOptions returns                                      *)
(***************************************************************************)
\* the option line j of the note holds: a lettered option, a checkbox, a
\* plain bullet, or none
C22_Kind(j) ==
    LET l == Trim(lines[j])
    IN  IF LetterMatch(l).ok THEN "letter"
        ELSE IF CheckMatch(l).ok THEN "check"
        ELSE IF ListMatch(l).ok THEN "bullet"
        ELSE "none"

C22_Text(j) ==
    LET l == Trim(lines[j])
    IN  IF C22_Kind(j) = "letter" THEN Trim(LetterMatch(l).text)
        ELSE IF C22_Kind(j) = "check" THEN Trim(CheckMatch(l).text)
        ELSE Trim(ListMatch(l).text)

\* line j can be collected when fewer than 10 options are held
C22_CanOpen(j) ==
    \/ C22_Kind(j) \in {"letter", "check"}
    \/ C22_Kind(j) = "bullet" /\ Len(C22_Text(j)) < 80

\* line j is blank, or is no option and starts with neither - nor *
C22_Stops(j) ==
    LET l == Trim(lines[j])
    IN  /\ C22_Kind(j) = "none"
        /\ l = <<>> \/ l[1] \notin {"-", "*"}

\* the lines of the 15 after the question line k that are examined while
\* options are collected: from the first option up to the first line that
\* stops the collection
C22_Examined(k) ==
    LET window == {j \in (k + 1)..(k + 15) : j <= Len(lines)}
        opened == {j \in window : C22_CanOpen(j)}
    IN  {j \in window :
            /\ opened # {}
            /\ j >= MinOf(opened)
            /\ \A s \in MinOf(opened)..j : ~C22_Stops(s)}

\* the options of the examined lines from line j on, n being held already
RECURSIVE C22_From(_, _, _)
C22_From(k, j, n) ==
    IF j \notin C22_Examined(k) THEN <<>>
    ELSE IF C22_CanOpen(j) /\ (C22_Kind(j) # "bullet" \/ n < 10)
    THEN <<C22_Text(j)>> \o C22_From(k, j + 1, n + 1)
    ELSE C22_From(k, j + 1, n)

C22_Options(k) ==
    IF C22_Examined(k) = {} THEN <<>>
    ELSE C22_From(k, MinOf(C22_Examined(k)), 0)

\* C22: the options collected for a question come from the 15 lines after
\* the question line at most; a plain bullet is not added once 10 options
\* are held or when its text has 80 or more characters; blank and other
\* lines before the first option are skipped; the first blank line or
\* non-list line after an option ends the collection, and no option after
\* it is returned
C22_OptionsOfWindow ==
    \A a \in 1..Len(questions) :
        origin[a].pass \in {1, 2} =>
            /\ questions[a].options = C22_Options(origin[a].line)
            /\ Len(questions[a].options) <= 15

\* a question followed by 16 lines, with options on the lines 1, 15 and 16
\* after it: the options of the lines 1 and 15 are returned
C22_LimitsMet ==
    /\ pc = "detected" /\ Len(detected) >= 1
    /\ Len(lines) = 17
    /\ C22_Kind(2) = "bullet" /\ C22_Kind(16) = "bullet" /\ C22_Kind(17) = "bullet"
    /\ detected[1].options = << <<"a">>, <<"z">> >>

(***************************************************************************)
(* NoteAnalyzer.analyze on notes with lists                                *)
(***************************************************************************)
MaxListLines == 3

\* the lines notes with lists are made of: an item, a numbered item, a
\* blank line, a heading that ends with a colon, a line of text
ListLines == { <<"-", " ", "a">>, <<"2", ".", " ", "b">>, <<>>, <<"#", "#", " ", "T", ":">>, <<"t", "e", "x", "t">> }

\* a title, two items of both kinds, a blank line, an item after the blank
\* line, a title with a colon, a numbered list that ends with the note
ListSamples ==
    { << <<"#", " ", "H">>, <<>>, <<"-", " ", "a">>, <<"1", ".", " ", "c", " ">>, <<>>, <<"*", " ", " ", "d">>, <<"T", "a", "s", "k", "s", ":">>, <<"1", ".", " ", "x">>,
         <<"-", " ", "y">> >>,
      << <<" ", " ", "-", " ", "i", "n">>, <<"-", "x">>, <<"#", "#", "#", "#", "#", "#", "#", " ", "h">>, <<"*", " ", "a">>, <<":">>, <<"3", ".", " ", "b">> >> }

ListNotes == {Join(ls, <<NL>>) : ls \in SeqsUpTo(ListLines, MaxListLines) \cup ListSamples}

InitLists == InitNote(ListNotes)

SpecLists == InitLists /\ [][NextNote]_vars

\* line k of the note is a list line
C23_IsItem(k) == ListMatch(lines[k]).ok \/ OrderedMatch(lines[k]).ok

\* the first lines of the maximal runs of list lines
C23_Runs == {a \in 1..Len(lines) : C23_IsItem(a) /\ (a = 1 \/ ~C23_IsItem(a - 1))}

\* the last line of the run that starts at line a
C23_RunEnd(a) == MaxOf({b \in a..Len(lines) : \A j \in a..b : C23_IsItem(j)})

\* the n-th run in the order of the note
C23_Run(n) == CHOOSE a \in C23_Runs : Cardinality({b \in C23_Runs : b < a}) = n - 1

\* a line without its heading markers and without its colon at the end
C23_Stripped(l) ==
    LET marks == {h \in 1..6 : /\ Len(l) > h
                               /\ \A c \in 1..h : l[c] = "#"
                               /\ l[h + 1] \in WsChars}
        text == IF marks = {} THEN l
                ELSE LET h == MaxOf(marks)
                     IN  Drop(l, h + RunLen(Drop(l, h), WsChars))
    IN  IF text # <<>> /\ text[Len(text)] = ":" THEN SubSeq(text, 1, Len(text) - 1)
        ELSE text

\* the title of the run that starts at line a
C23_Title(a) ==
    LET before == {j \in 1..(a - 1) : Trim(lines[j]) # <<>>}
    IN  IF before = {} THEN <<>> ELSE C23_Stripped(Trim(lines[MaxOf(before)]))

\* C23: extractLists returns one list for each maximal run of consecutive
\* list lines, with the items in line order; its title is the nearest
\* non-blank line before the run without heading markers and colon at the
\* end, empty when there is none; its numbered flag is that of the first
\* line of the run; no list without items is returned
C23_OneListPerRun ==
    SheetsDone =>
        /\ Len(lists) = Cardinality(C23_Runs)
        /\ \A n \in 1..Len(lists) :
               LET a == C23_Run(n)
                   b == C23_RunEnd(a)
               IN  /\ Len(lists[n].items) = b - a + 1
                   /\ Len(lists[n].items) > 0
                   /\ \A j \in a..b :
                          lists[n].items[j - a + 1] =
                              IF ListMatch(lines[j]).ok THEN ListMatch(lines[j]).text
                              ELSE OrderedMatch(lines[j]).text
                   /\ lists[n].isNumbered = OrderedMatch(lines[a]).ok
                   /\ lists[n].title = C23_Title(a)

\* three lists: the second starts after a blank line, the third is
\* numbered and has the title of the line before it without its colon
C23_ThreeLists ==
    /\ SheetsDone
    /\ Len(lists) = 3
    /\ lists[1].title = <<"H">> /\ Len(lists[1].items) = 2 /\ ~lists[1].isNumbered
    /\ lists[2].title = <<"1", ".", " ", "c">>
    /\ lists[3].title = <<"T", "a", "s", "k", "s">> /\ lists[3].isNumbered /\ Len(lists[3].items) = 2

(***************************************************************************)
(* The ranges of the style requests of markdownToDocsRequests              *)
(***************************************************************************)
\* the insertText request of the line of the request at position a
C24_InsertOf(a) == MaxOf({b \in InsertPositions : b <= a})

\* C24: every updateParagraphStyle and updateTextStyle request of a line
\* comes after the insertText request of that line and before the
\* insertText request of the next line, and its range lies inside the text
\* inserted for the line: it starts at the insertion index or after it and
\* ends at that index plus the length of the inserted text or before it
C24_RangesInsideInsertedText ==
    pc \in {"requests", "requested"} =>
        /\ \A a \in InsertPositions :
               \A c \in 1..(a - 1) : requestLine[c] < requestLine[a]
        /\ \A a \in (1..Len(requests)) \ InsertPositions :
               /\ \E b \in InsertPositions : b < a
               /\ LET ins == requests[C24_InsertOf(a)]
                  IN  /\ requestLine[C24_InsertOf(a)] = requestLine[a]
                      /\ requests[a].startIndex >= ins.index
                      /\ requests[a].startIndex < requests[a].endIndex
                      /\ requests[a].endIndex <= ins.index + Len(ins.text)

\* a text style request of a later line starts after the insertion index
\* of its line and ends where the inserted text ends, before the line break
C24_StyleInsideLaterLine ==
    /\ pc = "requested"
    /\ \E a \in (1..Len(requests)) \ InsertPositions :
           LET ins == requests[C24_InsertOf(a)]
           IN  /\ requests[a].kind = "updateTextStyle"
               /\ ins.index > 1
               /\ requests[a].startIndex > ins.index
               /\ requests[a].endIndex = ins.index + Len(ins.text) - 1
    /\ \E a \in (1..Len(requests)) \ InsertPositions :
           /\ requests[a].kind = "updateParagraphStyle"
           /\ requests[a].endIndex = requests[C24_InsertOf(a)].index
                                         + Len(requests[C24_InsertOf(a)].text)

(***************************************************************************)
(* WorkspaceConnectPlugin: the commands that import, export and sync the   *)
(* linked files.  A command runs from its call to its return in one step,  *)
(* except syncLinkedFiles, which is split where its loop body waits for    *)
(* the Google service, so that other handlers run in between.              *)
(***************************************************************************)
MaxClock == 5

\* a check that is content with one of the two tokens
IsAuthenticatedEitherToken == accessToken # "" \/ refreshToken # ""

\* isAuthenticated()
IsAuthenticated == accessToken # "" /\ refreshToken # ""

\* the notes of the vault at the start: one with a table, one without
TableNote == <<"|", " ", "a", " ", "|", " ", "b", " ", "|", "\n", "|", " ", "-", "-", "-", " ", "|", " ", "-", "-", "-", " ", "|", "\n", "|", " ", "1", " ", "|", " ", "2", " ", "|">>
PlainNote == <<"p", "l", "a", "i", "n", " ", "w", "o", "r", "d", "s">>
StartVault ==
    [p \in {<<"a", ".", "m", "d">>, <<"b", ".", "m", "d">>} |-> IF p = <<"a", ".", "m", "d">> THEN TableNote ELSE PlainNote]

\* the files of the Google account at the start
DriveFiles ==
    <<[type |-> "docs", revision |-> 0, name |-> <<"d", "o", "c">>],
      [type |-> "sheets", revision |-> 0, name |-> <<"a">>]>>

\* TFile.basename of a note
Basename(path) == SubSeq(path, 1, Len(path) - 3)

\* sanitizeFileName(name)
SanitizeFileName(name) ==
    [k \in 1..Len(name) |->
        IF name[k] \in {"\\", "/", ":", "*", "?", "\"", "<", ">", "|"} THEN "-" ELSE name[k]]

\* what the converters make of a remote file of the type
RemoteMarkdown(type) ==
    IF type = "sheets" THEN <<"|", " ", "x", " ", "|", "\n", "|", " ", "-", "-", "-", " ", "|", "\n", "|", " ", "1", " ", "|">> ELSE <<"r", "e", "m", "o", "t", "e", " ", "w", "o", "r", "d", "s">>

\* each command is called at a later instant than the one before
Tick == now < MaxClock /\ now' = now + 1

\* a handler starts only when no other is running: syncLinkedFiles is either not
\* running or suspended on a call to a Google service
EventLoopFree == pc \in {"ready", "syncFetch"}

\* the object literal pushed to settings.linkedFiles
NewLink(path, id, type) ==
    [ref |-> now, localPath |-> path, googleFileId |-> id, googleFileType |-> type,
     lastSyncedAt |-> now]

\* Array.prototype.find, as an index: the first link that passes the test, or 0
FirstLink(Test(_)) ==
    LET hits == {k \in 1..Len(linkedFiles) : Test(linkedFiles[k])}
    IN  IF hits = {} THEN 0 ELSE CHOOSE k \in hits : \A h \in hits : k <= h

\* the guard every command starts with
NotConnected ==
    /\ notice' = "Please connect to Google first in settings"
    /\ UNCHANGED <<linkedFiles, saves, vault, remoteFiles, remoteCalls>>

\* the catch block of a command: a Notice and nothing else
CommandFailed(text) ==
    /\ notice' = text
    /\ UNCHANGED <<linkedFiles, saves, vault, remoteFiles>>

\* updateDocument / updateSpreadsheet on the file of link k, then the stamp and the save
UpdateLinked(k, ok, done) ==
    /\ remoteCalls' = remoteCalls + 1
    /\ IF ok
       THEN /\ remoteFiles' = [remoteFiles EXCEPT ![linkedFiles[k].googleFileId].revision = @ + 1]
            /\ linkedFiles' = [linkedFiles EXCEPT ![k].lastSyncedAt = now]
            /\ saves' = saves + 1
            /\ notice' = done
            /\ UNCHANGED vault
       ELSE CommandFailed("Export failed")

\* createDocument / createSpreadsheet, then the push of the new link and the save
CreateLinked(path, type, ok, done, failed) ==
    /\ remoteCalls' = remoteCalls + 1
    /\ IF ok
       THEN /\ remoteFiles' = Append(remoteFiles, [type |-> type, revision |-> 0,
                                                   name |-> Basename(path)])
            /\ linkedFiles' = Append(linkedFiles, NewLink(path, Len(remoteFiles) + 1, type))
            /\ saves' = saves + 1
            /\ notice' = done
            /\ UNCHANGED vault
       ELSE CommandFailed(failed)

\* linkedFiles.find(l => l.localPath === file.path)
DocsLinkOf(file) == FirstLink(LAMBDA l : l.localPath = file)

\* linkedFiles.find(l => l.localPath === file.path && l.googleFileType === 'sheets')
SheetsLinkOf(file) ==
    FirstLink(LAMBDA l : l.localPath = file /\ l.googleFileType = "sheets")

\* exportToGoogleDocs(file); ok: the call to the Docs service succeeds
ExportToGoogleDocs(file, ok) ==
    /\ EventLoopFree
    /\ file \in DOMAIN vault
    /\ Tick
    /\ IF ~IsAuthenticated
       THEN NotConnected
       ELSE IF DocsLinkOf(file) # 0 /\ linkedFiles[DocsLinkOf(file)].googleFileType = "docs"
            THEN UpdateLinked(DocsLinkOf(file), ok, "Updated Google Doc")
            ELSE CreateLinked(file, "docs", ok, "Created Google Doc", "Export failed")
    /\ UNCHANGED <<pc, accessToken, refreshToken, syncVars>>
    /\ Frame("plugin")

\* exportToGoogleSheets(file); ok: the call to the Sheets service succeeds
ExportToGoogleSheets(file, ok) ==
    /\ EventLoopFree
    /\ file \in DOMAIN vault
    /\ Tick
    /\ IF ~IsAuthenticated
       THEN NotConnected
       ELSE IF Len(SheetsExtractTables(vault[file])) = 0
            THEN /\ notice' = "No tables found in this note"
                 /\ UNCHANGED <<linkedFiles, saves, vault, remoteFiles, remoteCalls>>
            ELSE IF SheetsLinkOf(file) # 0
                 THEN UpdateLinked(SheetsLinkOf(file), ok, "Updated Google Sheet")
                 ELSE CreateLinked(file, "sheets", ok, "Created Google Sheet",
                                   "Export failed")
    /\ UNCHANGED <<pc, accessToken, refreshToken, syncVars>>
    /\ Frame("plugin")

\* the plugin after onload, with the tokens and the links of data.json
InitPlugin(tokens, links) ==
    /\ pc = "ready"
    /\ accessToken = tokens[1] /\ refreshToken = tokens[2]
    /\ linkedFiles = links /\ saves = 0
    /\ vault = StartVault /\ remoteFiles = DriveFiles /\ remoteCalls = 0
    /\ now = 1 /\ notice = ""
    /\ IdleSync
    /\ IdleExcept("plugin")

\* exports only, every remote call succeeding
InitExport == InitPlugin(<<"access", "refresh">>, <<>>)
DoExportToGoogleDocs == \E file \in DOMAIN vault : ExportToGoogleDocs(file, TRUE)
DoExportToGoogleSheets == \E file \in DOMAIN vault : ExportToGoogleSheets(file, TRUE)
NextExport == DoExportToGoogleDocs \/ DoExportToGoogleSheets
SpecExport == InitExport /\ [][NextExport]_vars

\* the path the imported note gets: the first of name.md, name 1.md, name 2.md, ...
\* that is not taken
NotePath(base, counter) ==
    IF counter = 0 THEN base \o <<".", "m", "d">>
    ELSE base \o <<" ">> \o NumberToString(counter) \o <<".", "m", "d">>

RECURSIVE FreePath(_, _)
FreePath(base, counter) ==
    IF NotePath(base, counter) \in DOMAIN vault THEN FreePath(base, counter + 1)
    ELSE NotePath(base, counter)

\* vault.create(path, text)
VaultCreate(path, text) ==
    [p \in DOMAIN vault \cup {path} |-> IF p = path THEN text ELSE vault[p]]

FileTypes == {"docs", "sheets", "slides", "forms"}

\* importGoogleFile(type); selected: the file picked in the GoogleFilePicker, 0 when
\* none is; ok: the last call to a Google service succeeds
ImportGoogleFile(type, selected, ok) ==
    /\ EventLoopFree
    /\ selected = 0 \/ (selected \in 1..Len(remoteFiles) /\ remoteFiles[selected].type = type)
    /\ Tick
    /\ IF ~IsAuthenticated
       THEN NotConnected
       ELSE IF selected = 0
            THEN /\ remoteCalls' = remoteCalls + 1
                 /\ notice' = IF ok THEN notice ELSE "Import failed"
                 /\ UNCHANGED <<linkedFiles, saves, vault, remoteFiles>>
            ELSE /\ remoteCalls' = remoteCalls + 2
                 /\ UNCHANGED remoteFiles
                 /\ IF ok
                    THEN /\ vault' = VaultCreate(
                                FreePath(SanitizeFileName(remoteFiles[selected].name), 0),
                                RemoteMarkdown(type))
                         /\ linkedFiles' = Append(linkedFiles,
                                NewLink(FreePath(SanitizeFileName(remoteFiles[selected].name), 0),
                                        selected, type))
                         /\ saves' = saves + 1
                         /\ notice' = "Imported"
                    ELSE /\ notice' = "Importing"
                         /\ UNCHANGED <<linkedFiles, saves, vault>>
    /\ UNCHANGED <<pc, accessToken, refreshToken, syncVars>>
    /\ Frame("plugin")

\* createNewGoogleDoc(); activeFile: the path of the active note, <<>> when there is none
CreateNewGoogleDoc(activeFile, ok) ==
    /\ EventLoopFree
    /\ activeFile = <<>> \/ activeFile \in DOMAIN vault
    /\ Tick
    /\ IF ~IsAuthenticated
       THEN NotConnected
       ELSE IF activeFile # <<>>
            THEN CreateLinked(activeFile, "docs", ok, "Created Google Doc", "Creation failed")
            ELSE /\ remoteCalls' = remoteCalls + 1
                 /\ IF ok
                    THEN /\ remoteFiles' = Append(remoteFiles,
                                [type |-> "docs", revision |-> 0, name |-> <<"N", "e", "w", " ", "D", "o", "c", "u", "m", "e", "n", "t">>])
                         /\ notice' = "Created Google Doc"
                         /\ UNCHANGED <<linkedFiles, saves, vault>>
                    ELSE CommandFailed("Creation failed")
    /\ UNCHANGED <<pc, accessToken, refreshToken, syncVars>>
    /\ Frame("plugin")

\* syncLinkedFiles(), from the call to the first turn of the loop
SyncStart ==
    /\ pc = "ready"
    /\ Tick
    /\ IF ~IsAuthenticated
       THEN NotConnected /\ UNCHANGED <<pc, syncVars>>
       ELSE IF Len(linkedFiles) = 0
            THEN /\ notice' = "No linked files to sync"
                 /\ UNCHANGED <<pc, linkedFiles, saves, syncVars>>
            ELSE /\ pc' = "syncLoop"
                 /\ notice' = "Syncing"
                 /\ syncIndex' = 0 /\ syncLinked' = <<>> /\ synced' = 0 /\ errors' = 0
                 /\ visited' = <<>> /\ overwritten' = {} /\ startLinks' = linkedFiles
                 /\ unlinked' = {} /\ saves' = 0
                 /\ UNCHANGED linkedFiles
    /\ UNCHANGED <<accessToken, refreshToken, vault, remoteFiles, remoteCalls>>
    /\ Frame("plugin")

\* for (const linked of linkedFiles): the array iterator hands out the element at its
\* index in the array as it is now; the body runs up to the call of the Google
\* service, or to continue when the note is missing
SyncNext ==
    /\ pc = "syncLoop"
    /\ syncIndex < Len(linkedFiles)
    /\ syncIndex' = syncIndex + 1
    /\ visited' = Append(visited, linkedFiles[syncIndex + 1].ref)
    /\ IF linkedFiles[syncIndex + 1].localPath \in DOMAIN vault
       THEN /\ pc' = "syncFetch"
            /\ syncLinked' = linkedFiles[syncIndex + 1]
            /\ remoteCalls' = remoteCalls + 1
       ELSE UNCHANGED <<pc, syncLinked, remoteCalls>>
    /\ UNCHANGED <<settingsVars, vault, remoteFiles, now, notice, synced, errors,
                   overwritten, startLinks, unlinked>>
    /\ Frame("plugin")

SyncOutcomes == {"written", "fetchFailed", "convertFailed", "writeFailed"}

\* linked.lastSyncedAt = ..., on the object the loop holds
Stamp(ref) ==
    [k \in 1..Len(linkedFiles) |->
        IF linkedFiles[k].ref = ref THEN [linkedFiles[k] EXCEPT !.lastSyncedAt = now]
        ELSE linkedFiles[k]]

\* a loop body whose catch block ends the loop
SyncFetchedBreaking(outcome) ==
    /\ pc = "syncFetch"
    /\ pc' = "syncLoop"
    /\ syncLinked' = <<>>
    /\ IF outcome = "written"
       THEN /\ vault' = [vault EXCEPT ![syncLinked.localPath] =
                                          RemoteMarkdown(syncLinked.googleFileType)]
            /\ linkedFiles' = Stamp(syncLinked.ref)
            /\ synced' = synced + 1
            /\ overwritten' = overwritten \cup {syncLinked.ref}
            /\ UNCHANGED <<errors, syncIndex>>
       ELSE /\ errors' = errors + 1
            /\ syncIndex' = Len(linkedFiles)
            /\ UNCHANGED <<vault, linkedFiles, synced, overwritten>>
    /\ UNCHANGED <<accessToken, refreshToken, saves, remoteFiles, remoteCalls, now, notice,
                   visited, startLinks, unlinked>>
    /\ Frame("plugin")

\* the rest of the loop body, once the Google service has answered
SyncFetched(outcome) ==
    /\ pc = "syncFetch"
    /\ pc' = "syncLoop"
    /\ syncLinked' = <<>>
    /\ IF outcome = "written"
       THEN /\ vault' = [vault EXCEPT ![syncLinked.localPath] =
                                          RemoteMarkdown(syncLinked.googleFileType)]
            /\ linkedFiles' = Stamp(syncLinked.ref)
            /\ synced' = synced + 1
            /\ overwritten' = overwritten \cup {syncLinked.ref}
            /\ UNCHANGED errors
       ELSE /\ errors' = errors + 1
            /\ UNCHANGED <<vault, linkedFiles, synced, overwritten>>
    /\ UNCHANGED <<accessToken, refreshToken, saves, remoteFiles, remoteCalls, now, notice,
                   syncIndex, visited, startLinks, unlinked>>
    /\ Frame("plugin")

\* the iterator is done: saveSettings and the closing Notice
SyncFinish ==
    /\ pc = "syncLoop"
    /\ syncIndex >= Len(linkedFiles)
    /\ pc' = "ready"
    /\ saves' = saves + 1
    /\ notice' = "Synced"
    /\ UNCHANGED <<accessToken, refreshToken, linkedFiles, vault, remoteFiles, remoteCalls,
                   now, syncVars>>
    /\ Frame("plugin")

\* the Unlink button of the settings tab: linkedFiles.splice(index, 1) and the save
Unlink(index) ==
    /\ EventLoopFree
    /\ index \in 1..Len(linkedFiles)
    /\ linkedFiles' = SubSeq(linkedFiles, 1, index - 1)
                        \o SubSeq(linkedFiles, index + 1, Len(linkedFiles))
    /\ saves' = saves + 1
    /\ unlinked' = unlinked \cup {linkedFiles[index].ref}
    /\ UNCHANGED <<pc, accessToken, refreshToken, worldVars, syncIndex, syncLinked, synced,
                   errors, visited, overwritten, startLinks>>
    /\ Frame("plugin")

\* the links data.json may hold at the start: the note of the third is missing
StoredLink(n) ==
    [ref |-> 0 - n,
     localPath |-> IF n = 1 THEN <<"a", ".", "m", "d">> ELSE IF n = 2 THEN <<"b", ".", "m", "d">> ELSE <<"c", ".", "m", "d">>,
     googleFileId |-> IF n = 2 THEN 2 ELSE 1,
     googleFileType |-> IF n = 2 THEN "sheets" ELSE "docs",
     lastSyncedAt |-> 0]
MaxStoredLinks == 3
StoredLists ==
    {[k \in 1..Len(s) |-> StoredLink(s[k])] :
        s \in {t \in UNION {[1..n -> 1..MaxStoredLinks] : n \in 0..MaxStoredLinks} :
                  \A a, b \in 1..Len(t) : t[a] = t[b] => a = b}}

DoSyncFetched == \E outcome \in SyncOutcomes : SyncFetched(outcome)
DoUnlink == \E index \in 1..Len(linkedFiles) : Unlink(index)

\* a sync run while the settings tab is open
InitSync == \E links \in StoredLists : InitPlugin(<<"access", "refresh">>, links)
NextSync == SyncStart \/ SyncNext \/ DoSyncFetched \/ SyncFinish \/ DoUnlink
SpecSync == InitSync /\ [][NextSync]_vars

\* a sync run with no other handler in between
NextSyncAlone == SyncStart \/ SyncNext \/ DoSyncFetched \/ SyncFinish
SpecSyncAlone == InitSync /\ [][NextSyncAlone]_vars

\* every command, connected or not
Tokens == {<<a, r>> : a \in {"", "access"}, r \in {"", "refresh"}}
InitCommands ==
    \E tokens \in Tokens, links \in {<<>>, <<StoredLink(1)>>} : InitPlugin(tokens, links)
DoImportGoogleFile ==
    \E type \in FileTypes, selected \in 0..Len(remoteFiles), ok \in BOOLEAN :
        ImportGoogleFile(type, selected, ok)
DoExportDocs == \E file \in DOMAIN vault, ok \in BOOLEAN : ExportToGoogleDocs(file, ok)
DoExportSheets == \E file \in DOMAIN vault, ok \in BOOLEAN : ExportToGoogleSheets(file, ok)
DoCreateNewGoogleDoc ==
    \E activeFile \in DOMAIN vault \cup {<<>>}, ok \in BOOLEAN :
        CreateNewGoogleDoc(activeFile, ok)
NextCommands ==
    \/ DoImportGoogleFile \/ DoExportDocs \/ DoExportSheets \/ DoCreateNewGoogleDoc
    \/ SyncStart \/ SyncNext \/ DoSyncFetched \/ SyncFinish
SpecCommands == InitCommands /\ [][NextCommands]_vars

\* C25: settings.linkedFiles holds at most one link per pair of a local path and a
\* file type, whatever exports were made
C25_OneLinkPerPathAndType ==
    \A a, b \in 1..Len(linkedFiles) :
        (/\ linkedFiles[a].localPath = linkedFiles[b].localPath
         /\ linkedFiles[a].googleFileType = linkedFiles[b].googleFileType) => a = b

\* C27: when a sync run has ended, every link that was in settings.linkedFiles when it
\* began and was not unlinked since was taken by the loop exactly once
C27_StayingLinksVisitedOnce ==
    (pc = "ready" /\ notice = "Synced") =>
        \A k \in 1..Len(startLinks) :
            startLinks[k].ref \notin unlinked =>
                Cardinality({j \in 1..Len(visited) : visited[j] = startLinks[k].ref}) = 1

\* C28: in a sync run that no other handler interrupts, a failure on one link does not
\* end the loop: when the run has ended every link was taken in order, the links with a
\* note were counted once each as synced or as an error and the links without a note
\* were not counted, and the settings were saved once; lastSyncedAt differs from its
\* value at the start only for links whose note holds the remote content the run wrote;
\* synced + errors never exceeds the number of links
C28_RunEnded == pc = "ready" /\ notice = "Synced"
C28_HasNote(k) == startLinks[k].localPath \in DOMAIN vault
C28_FailuresDoNotStopTheRun ==
    /\ synced + errors <= Len(startLinks)
    /\ pc \in {"syncLoop", "syncFetch"} \/ C28_RunEnded =>
        \A k \in 1..Len(startLinks) :
            linkedFiles[k].lastSyncedAt # startLinks[k].lastSyncedAt =>
                /\ C28_HasNote(k)
                /\ vault[startLinks[k].localPath] = RemoteMarkdown(startLinks[k].googleFileType)
                /\ startLinks[k].ref \in overwritten
    /\ C28_RunEnded =>
        /\ visited = [k \in 1..Len(startLinks) |-> startLinks[k].ref]
        /\ synced + errors = Cardinality({k \in 1..Len(startLinks) : C28_HasNote(k)})
        /\ synced = Cardinality(overwritten)
        /\ saves = 1

\* a run over three links has ended: the first failed, the note of the second is
\* missing, the third was rewritten
C28_LaterLinkSyncedAfterFailure ==
    /\ C28_RunEnded
    /\ Len(startLinks) = 3
    /\ C28_HasNote(1) /\ ~C28_HasNote(2) /\ C28_HasNote(3)
    /\ linkedFiles[1].lastSyncedAt = startLinks[1].lastSyncedAt
    /\ linkedFiles[3].lastSyncedAt # startLinks[3].lastSyncedAt
    /\ errors = 1 /\ synced = 1

\* C29: a step taken while the access token or the refresh token is empty makes no
\* call to a Google service and leaves the remote files, settings.linkedFiles and the
\* notes of the vault as they are; and exportToGoogleSheets on a note whose text has no
\* pipe character makes no call and leaves settings.linkedFiles as it is
C29_NotAuthenticated == accessToken = "" \/ refreshToken = ""
C29_NoTable(text) == \A k \in 1..Len(text) : text[k] # "|"
C29_RefusedCommandsChangeNothing ==
    [][/\ C29_NotAuthenticated =>
            /\ remoteCalls' = remoteCalls /\ remoteFiles' = remoteFiles
            /\ linkedFiles' = linkedFiles /\ vault' = vault
       /\ \A file \in DOMAIN vault, ok \in BOOLEAN :
            (ExportToGoogleSheets(file, ok) /\ C29_NoTable(vault[file])) =>
                /\ remoteCalls' = remoteCalls /\ remoteFiles' = remoteFiles
                /\ linkedFiles' = linkedFiles]_vars

\* the plugin holds an access token but no refresh token and a stored link, and the
\* last of several commands was refused
C29_RefusedWithOneToken ==
    /\ accessToken # "" /\ refreshToken = ""
    /\ notice = "Please connect to Google first in settings"
    /\ now = MaxClock
    /\ Len(linkedFiles) = 1

(***************************************************************************)
(* GoogleApiService.request: one step per awaited call.                    *)
(***************************************************************************)
MaxRetries == 3

\* the statuses requestUrl may hand back, and the texts of a response
Statuses == {199, 200, 299, 300, 401, 500}
ResponseTexts == {<<"f", "a", "i", "l">>, <<"s", "e", "e", " ", "4", "0", "1">>}

\* the messages of the errors requestUrl may throw
RequestErrors == {<<"R", "e", "q", "u", "e", "s", "t", " ", "f", "a", "i", "l", "e", "d", ",", " ", "s", "t", "a", "t", "u", "s", " ", "4", "0", "1">>, <<"n", "e", "t", ":", ":", "E", "R", "R", "_", "F", "A", "I", "L", "E", "D">>}

\* the messages of the errors refreshAccessToken may throw
RefreshErrors == {<<"N", "o", " ", "r", "e", "f", "r", "e", "s", "h", " ", "t", "o", "k", "e", "n", " ", "a", "v", "a", "i", "l", "a", "b", "l", "e", ".", " ", "P", "l", "e", "a", "s", "e", " ", "r", "e", "-", "a", "u", "t", "h", "e", "n", "t", "i", "c", "a", "t", "e", ".">>,
                  <<"R", "e", "q", "u", "e", "s", "t", " ", "f", "a", "i", "l", "e", "d", ",", " ", "s", "t", "a", "t", "u", "s", " ", "4", "0", "1">>}

\* the answers of requestUrl(requestOptions)
Answers ==
    {[kind |-> "response", status |-> s, text |-> t] : s \in Statuses, t \in ResponseTexts}
    \cup {[kind |-> "error", status |-> 0, text |-> m] : m \in RequestErrors}

\* the outcomes of refreshAccessToken: a new token, or an error
RefreshOutcomes ==
    {[kind |-> "refreshed", status |-> 0, text |-> <<>>]}
    \cup {[kind |-> "refreshFailed", status |-> 0, text |-> m] : m \in RefreshErrors}

\* `API Error ${response.status}: ${response.text}`
ApiError(status, text) == <<"A", "P", "I", " ", "E", "r", "r", "o", "r", " ">> \o NumberToString(status) \o <<":", " ">> \o text

\* while (retries < maxRetries)
WithinRetries(r) == r < MaxRetries

\* retries++; continue: the next turn of the loop, or the throw after it
Continue ==
    /\ retries' = retries + 1
    /\ IF WithinRetries(retries + 1)
       THEN pc' = "requestUrl" /\ UNCHANGED thrown
       ELSE pc' = "thrown" /\ thrown' = <<"M", "a", "x", " ", "r", "e", "t", "r", "i", "e", "s", " ", "e", "x", "c", "e", "e", "d", "e", "d">>

\* catch (e): up to the await of the refresh, or to throw e
Catch(message) ==
    /\ UNCHANGED retries
    /\ IF Includes(message, <<"4", "0", "1">>) /\ retries < MaxRetries - 1
       THEN pc' = "refreshCatch" /\ UNCHANGED thrown
       ELSE pc' = "thrown" /\ thrown' = message

\* await getValidAccessToken(): the stored token, a refreshed one, or an error
GetValidAccessToken(outcome) ==
    /\ pc = "request"
    /\ IF outcome.kind = "valid"
       THEN pc' = "requestUrl" /\ UNCHANGED <<thrown, tokenRefreshes, trail>>
       ELSE /\ tokenRefreshes' = tokenRefreshes + 1
            /\ trail' = Append(trail, outcome)
            /\ IF outcome.kind = "refreshed"
               THEN pc' = "requestUrl" /\ UNCHANGED thrown
               ELSE pc' = "thrown" /\ thrown' = outcome.text
    /\ UNCHANGED <<retries, httpRequests, returned>>
    /\ Frame("api")

\* response = await requestUrl(requestOptions), and the body of the try block up to
\* its next await
RequestUrl(answer) ==
    /\ pc = "requestUrl"
    /\ httpRequests' = httpRequests + 1
    /\ trail' = Append(trail, answer)
    /\ IF answer.kind = "error"
       THEN Catch(answer.text) /\ UNCHANGED returned
       ELSE IF answer.status = 401
            THEN pc' = "refreshTry" /\ UNCHANGED <<retries, returned, thrown>>
            ELSE IF answer.status >= 200 /\ answer.status < 300
                 THEN /\ pc' = "returned"
                      /\ returned' = <<"json", httpRequests + 1>>
                      /\ UNCHANGED <<retries, thrown>>
                 ELSE Catch(ApiError(answer.status, answer.text)) /\ UNCHANGED returned
    /\ UNCHANGED tokenRefreshes
    /\ Frame("api")

\* await refreshAccessToken() of the try block
RefreshInTry(outcome) ==
    /\ pc = "refreshTry"
    /\ tokenRefreshes' = tokenRefreshes + 1
    /\ trail' = Append(trail, outcome)
    /\ IF outcome.kind = "refreshed" THEN Continue ELSE Catch(outcome.text)
    /\ UNCHANGED <<httpRequests, returned>>
    /\ Frame("api")

\* await refreshAccessToken() of the catch block: its error leaves request
RefreshInCatch(outcome) ==
    /\ pc = "refreshCatch"
    /\ tokenRefreshes' = tokenRefreshes + 1
    /\ trail' = Append(trail, outcome)
    /\ IF outcome.kind = "refreshed"
       THEN Continue
       ELSE pc' = "thrown" /\ thrown' = outcome.text /\ UNCHANGED retries
    /\ UNCHANGED <<httpRequests, returned>>
    /\ Frame("api")

InitApiRequest == pc = "request" /\ IdleExcept("api") /\ IdleApi
DoGetValidAccessToken ==
    \E outcome \in RefreshOutcomes \cup {[kind |-> "valid", status |-> 0, text |-> <<>>]} :
        GetValidAccessToken(outcome)
DoRequestUrl == \E answer \in Answers : RequestUrl(answer)
DoRefreshInTry == \E outcome \in RefreshOutcomes : RefreshInTry(outcome)
DoRefreshInCatch == \E outcome \in RefreshOutcomes : RefreshInCatch(outcome)
NextApiRequest == DoGetValidAccessToken \/ DoRequestUrl \/ DoRefreshInTry \/ DoRefreshInCatch

\* every awaited call settles
SpecApiRequest == InitApiRequest /\ [][NextApiRequest]_vars /\ WF_vars(NextApiRequest)

\* C26: a call of request makes at most 3 calls of requestUrl for its URL; a value is
\* returned only as the body of the last response, whose status is 2xx; a request is
\* sent again only after an answer that reports status 401, and after the token was
\* refreshed; a call that does not return throws the message of its last failure, or
\* Max retries exceeded after three answers with status 401; and every call returns or
\* throws in the end
C26_Requests == {k \in 1..Len(trail) : trail[k].kind \in {"response", "error"}}
C26_Is2xx(k) ==
    trail[k].kind = "response" /\ trail[k].status >= 200 /\ trail[k].status <= 299
C26_Is401(k) ==
    \/ trail[k].kind = "response" /\ trail[k].status = 401
    \/ trail[k].kind = "error" /\ trail[k].text = <<"R", "e", "q", "u", "e", "s", "t", " ", "f", "a", "i", "l", "e", "d", ",", " ", "s", "t", "a", "t", "u", "s", " ", "4", "0", "1">>
C26_ThrowsLastFailure ==
    IF thrown = <<"M", "a", "x", " ", "r", "e", "t", "r", "i", "e", "s", " ", "e", "x", "c", "e", "e", "d", "e", "d">>
    THEN Cardinality({k \in C26_Requests : C26_Is401(k)}) = 3
    ELSE IF trail[Len(trail)].kind = "response"
         THEN /\ ~C26_Is2xx(Len(trail))
              /\ StartsWith(thrown, <<"A", "P", "I", " ", "E", "r", "r", "o", "r", " ">>)
              /\ Includes(thrown, NumberToString(trail[Len(trail)].status))
         ELSE thrown = trail[Len(trail)].text
C26_Sound ==
    /\ Cardinality(C26_Requests) <= 3
    /\ httpRequests = Cardinality(C26_Requests)
    /\ \A p, j \in C26_Requests :
          p < j => /\ C26_Is401(p)
                   /\ \E k \in (p + 1)..(j - 1) : trail[k].kind = "refreshed"
    /\ returned # <<>> <=> pc = "returned"
    /\ thrown # <<>> <=> pc = "thrown"
    /\ pc = "returned" =>
          /\ C26_Is2xx(Len(trail))
          /\ returned = <<"json", Cardinality(C26_Requests)>>
    /\ pc = "thrown" => C26_ThrowsLastFailure
C26_RequestEndsWithinThreeRequests ==
    [](C26_Sound) /\ <>(pc \in {"returned", "thrown"})

(***************************************************************************)
(* FormsConverter.toMarkdown.  An absent string of the form is <<>>.       *)
(***************************************************************************)
MaxFormItems == 3

\* getQuestionTypeInfo(question), for text and choice questions
GetQuestionTypeInfo(question) ==
    IF question.shape = "textQuestion"
    THEN [type |-> IF question.paragraph THEN <<"L", "o", "n", "g", " ", "A", "n", "s", "w", "e", "r">> ELSE <<"S", "h", "o", "r", "t", " ", "A", "n", "s", "w", "e", "r">>,
          options |-> <<>>]
    ELSE IF question.shape = "choiceQuestion"
    THEN [type |-> <<"M", "u", "l", "t", "i", "p", "l", "e", " ", "C", "h", "o", "i", "c", "e">>, options |-> question.options]
    ELSE [type |-> <<"U", "n", "k", "n", "o", "w", "n">>, options |-> <<>>]

\* the lines convertFormItem collects for the item
ItemLines(item, num) ==
    IF item.kind = "questionItem"
    THEN <<<<"#", "#", "#", " ">> \o NumberToString(num) \o <<".", " ">>
             \o (IF item.title # <<>> THEN item.title ELSE <<"U", "n", "t", "i", "t", "l", "e", "d", " ", "Q", "u", "e", "s", "t", "i", "o", "n">>)
             \o (IF item.questions[1].required THEN <<" ", "*", "*", "(", "R", "e", "q", "u", "i", "r", "e", "d", ")", "*", "*">> ELSE <<>>)>>
         \o (IF item.description # <<>> THEN <<<<"*">> \o item.description \o <<"*">>>>
             ELSE <<>>)
         \o <<<<"T", "y", "p", "e", ":", " ">> \o GetQuestionTypeInfo(item.questions[1]).type, <<>>>>
         \o (IF Len(GetQuestionTypeInfo(item.questions[1]).options) > 0
             THEN <<<<"O", "p", "t", "i", "o", "n", "s", ":">>>>
                  \o [k \in 1..Len(GetQuestionTypeInfo(item.questions[1]).options) |->
                        <<"-", " ", "[", " ", "]", " ">> \o GetQuestionTypeInfo(item.questions[1]).options[k]]
             ELSE <<>>)
    ELSE IF item.kind = "questionGroupItem"
    THEN <<<<"#", "#", "#", " ">> \o NumberToString(num) \o <<".", " ">>
             \o (IF item.title # <<>> THEN item.title ELSE <<"Q", "u", "e", "s", "t", "i", "o", "n", " ", "G", "r", "o", "u", "p">>)>>
         \o (IF item.description # <<>> THEN <<<<"*">> \o item.description \o <<"*">>>>
             ELSE <<>>)
         \o [k \in 1..Len(item.questions) |->
               <<"-", " ">> \o GetQuestionTypeInfo(item.questions[k]).type]
    ELSE IF item.kind = "textItem"
    THEN (IF item.title # <<>> THEN <<<<"*", "*">> \o item.title \o <<"*", "*">>>> ELSE <<>>)
         \o (IF item.description # <<>> THEN <<item.description>> ELSE <<>>)
    ELSE IF item.kind = "pageBreakItem"
    THEN <<<<"-", "-", "-">>>>
         \o (IF item.title # <<>> THEN <<<<"#", "#", " ">> \o item.title>> ELSE <<>>)
    ELSE IF item.kind = "imageItem"
    THEN <<<<"!", "[", "I", "m", "a", "g", "e", "]", "(">> \o item.uri \o <<")">>>>
    ELSE IF item.kind = "videoItem"
    THEN (IF item.uri # <<>> THEN <<<<"[", "V", "i", "d", "e", "o", "]", "(">> \o item.uri \o <<")">>>> ELSE <<>>)
         \o (IF item.description # <<>> THEN <<<<"*">> \o item.description \o <<"*">>>>
             ELSE <<>>)
    ELSE <<>>

\* convertFormItem(item, questionNum)
ConvertFormItem(item, num) == Join(ItemLines(item, num), <<NL>>)

\* the items of the forms tried; description is the caption of a video item
Item(kind, title, text, uri, qs) ==
    [kind |-> kind, title |-> title, description |-> text, uri |-> uri, questions |-> qs]
ShortQuestion ==
    [shape |-> "textQuestion", paragraph |-> FALSE, required |-> TRUE, options |-> <<>>]
ChoiceQuestion ==
    [shape |-> "choiceQuestion", paragraph |-> FALSE, required |-> FALSE,
     options |-> <<<<"A">>, <<"B">>>>]
ItemPool ==
    {Item("questionItem", <<"N", "a", "m", "e">>, <<>>, <<>>, <<ShortQuestion>>),
     Item("questionItem", <<>>, <<"p", "i", "c", "k">>, <<>>, <<ChoiceQuestion>>),
     Item("questionGroupItem", <<"G", "r", "i", "d">>, <<>>, <<>>, <<ChoiceQuestion>>),
     Item("textItem", <<"P", "a", "r", "t">>, <<>>, <<>>, <<>>),
     Item("textItem", <<>>, <<>>, <<>>, <<>>),
     Item("pageBreakItem", <<>>, <<>>, <<>>, <<>>),
     Item("imageItem", <<>>, <<>>, <<"h", "t", "t", "p", ":", "/", "/", "i">>, <<>>),
     Item("videoItem", <<>>, <<>>, <<>>, <<>>)}
Forms ==
    {[title |-> <<"F", "o", "r", "m">>, description |-> d, responderUri |-> <<>>, items |-> its] :
        d \in {<<>>, <<"a", "b", "o", "u", "t">>},
        its \in UNION {[1..n -> ItemPool] : n \in 0..MaxFormItems}}

InitFormMarkdown ==
    /\ pc = "form"
    /\ form \in Forms
    /\ formLines = <<>> /\ questionNum = 0 /\ itemIndex = 0 /\ formMarkdown = <<>>
    /\ IdleExcept("form")

\* toMarkdown up to the loop: the title, the description, the link, the heading
FormHeader ==
    /\ pc = "form"
    /\ pc' = "items"
    /\ formLines' =
          <<<<"#", " ">> \o form.title, <<>>>>
          \o (IF form.description # <<>>
              THEN <<<<"*">> \o form.description \o <<"*">>, <<>>>> ELSE <<>>)
          \o (IF form.responderUri # <<>>
              THEN <<<<"[", "O", "p", "e", "n", " ", "F", "o", "r", "m", "]", "(">> \o form.responderUri \o <<")">>, <<>>>> ELSE <<>>)
          \o <<<<"-", "-", "-">>, <<>>, <<"#", "#", " ", "Q", "u", "e", "s", "t", "i", "o", "n", "s">>, <<>>>>
    /\ questionNum' = 1
    /\ itemIndex' = 1
    /\ UNCHANGED <<form, formMarkdown>>
    /\ Frame("form")

\* one turn of for (const item of form.items)
FormItemStep ==
    /\ pc = "items"
    /\ itemIndex <= Len(form.items)
    /\ itemIndex' = itemIndex + 1
    /\ IF ConvertFormItem(form.items[itemIndex], questionNum) # <<>>
       THEN /\ formLines' = formLines
                  \o <<ConvertFormItem(form.items[itemIndex], questionNum), <<>>>>
            /\ questionNum' = questionNum + 1
       ELSE UNCHANGED <<formLines, questionNum>>
    /\ UNCHANGED <<pc, form, formMarkdown>>
    /\ Frame("form")

\* return lines.join('\n')
FormJoin ==
    /\ pc = "items"
    /\ itemIndex > Len(form.items)
    /\ pc' = "formDone"
    /\ formMarkdown' = Join(formLines, <<NL>>)
    /\ UNCHANGED <<form, formLines, questionNum, itemIndex>>
    /\ Frame("form")

NextFormMarkdown == FormHeader \/ FormItemStep \/ FormJoin
SpecFormMarkdown == InitFormMarkdown /\ [][NextFormMarkdown]_vars

\* C30: the numbers of the ### headings of the Markdown text of a form are 1, 2, ...,
\* up to the number of question items and question-group items of the form
C30_Headings(md) == SelectSeq(Split(md, NL), LAMBDA l : StartsWith(l, <<"#", "#", "#", " ">>))
C30_Number(heading) ==
    DigitsValue(SubSeq(heading, 5, 4 + RunLen(Drop(heading, 4), Digits)))
C30_QuestionCount ==
    Cardinality({k \in 1..Len(form.items) :
                    form.items[k].kind \in {"questionItem", "questionGroupItem"}})
C30_NumbersConsecutive ==
    pc = "formDone" =>
        /\ Len(C30_Headings(formMarkdown)) = C30_QuestionCount
        /\ \A k \in 1..C30_QuestionCount : C30_Number(C30_Headings(formMarkdown)[k]) = k

====
